---- MODULE Spec2Model ----
(***************************************************************************)
(* DAGWorkflow (src/src/graph_workflow.rs): the graph store, the cycle     *)
(* guard run by connect_agents, and the execution engine                   *)
(* (execute_workflow / execute_node).                                      *)
(*                                                                         *)
(* The workflow graph is a petgraph StableGraph: node indices are stable   *)
(* under removal, vacant slots are kept on a LIFO free list and reused by  *)
(* add_node, node_count() counts the live nodes only, and the edges of a   *)
(* node are iterated most recently added first.                            *)
(***************************************************************************)
EXTENDS Integers, Sequences, FiniteSets, TLC

VARIABLES
    agents,          \* DAGWorkflow.agents
    workflow,        \* DAGWorkflow.workflow
    name_to_node,    \* DAGWorkflow.name_to_node
    ret,             \* the last graph-store call and its result
    panicked,        \* a call has panicked
    phase,           \* "idle", or "running" inside execute_workflow
    starts,          \* start_agents of the current execute_workflow call
    results,         \* the run's results map: name -> Option<Result>
    edge_tracker,    \* the run's edge_tracker: set of <<source, target>>
    processed_nodes, \* the run's processed_nodes: target -> <<source, input>>*
    frames,          \* the execute_node calls of the run
    pollq,           \* futures created and not yet polled, in poll order
    invoked,         \* name -> the inputs its unit was run with in this run
    wret,            \* Option<what the last execute_workflow returned>
    runs             \* execute_workflow calls made

gvars == <<agents, workflow, name_to_node, ret, panicked>>
rvars == <<phase, starts, results, edge_tracker, processed_nodes, frames,
           pollq, invoked, wret, runs>>
vars == <<agents, workflow, name_to_node, ret, panicked, phase, starts, results,
          edge_tracker, processed_nodes, frames, pollq, invoked, wret, runs>>

(***************************************************************************)
(* Bounds and value sets                                                   *)
(***************************************************************************)
\* the names the graph-store specification registers and connects
BuildNames == {"a", "b", "c"}
\* every agent name of the model ("d" is the fourth node of the diamond)
Names == BuildNames \cup {"d"}
\* the unit handles an agent can be registered with
Impls == {"u1", "u2"}
\* the graph-store specification stops adding edges at this many
MaxEdges == 3

\* Option<T>: None is <<>>, Some(x) is <<x>>
None == <<>>
Some(x) == <<x>>
IsSome(o) == o # <<>>
Unwrap(o) == o[1]

\* Flow: an optional transform and an optional condition
Flow(t, c) == [transform |-> t, condition |-> c]
FlowDefault == Flow(FALSE, FALSE)
Flows == {Flow(t, c) : t \in BOOLEAN, c \in BOOLEAN}
\* the flows the graph-store specification connects with
BuildFlows == {FlowDefault, Flow(FALSE, TRUE)}

(***************************************************************************)
(* StableGraph<AgentNode, Flow>                                            *)
(*   slots : sequence of Option<AgentNode>; node index i is slots[i + 1]   *)
(*   free  : the vacant indices, most recently vacated first               *)
(*   edges : the live edges in insertion order, [src, dst, flow]           *)
(***************************************************************************)
AgentNode(name) == [name |-> name, last_result |-> None]

StableGraphNew == [slots |-> <<>>, free |-> <<>>, edges |-> <<>>]

IsLive(g, i) == i >= 0 /\ i < Len(g.slots) /\ IsSome(g.slots[i + 1])

LiveSet(g) == {i \in 0..(Len(g.slots) - 1) : IsSome(g.slots[i + 1])}

node_count(g) == Cardinality(LiveSet(g))

node_weight(g, i) == IF IsLive(g, i) THEN g.slots[i + 1] ELSE None

\* ascending sequence of the elements of a finite set of integers
RECURSIVE SortedSeq(_)
SortedSeq(S) ==
    IF S = {} THEN <<>>
    ELSE LET m == CHOOSE x \in S : \A y \in S : x <= y
         IN <<m>> \o SortedSeq(S \ {m})

node_indices(g) == SortedSeq(LiveSet(g))

\* the index add_node hands out: the top of the free list, else a new slot
NextIndex(g) == IF g.free # <<>> THEN Head(g.free) ELSE Len(g.slots)

add_node(g, w) ==
    IF g.free # <<>>
    THEN [g EXCEPT !.slots[Head(g.free) + 1] = Some(w), !.free = Tail(g.free)]
    ELSE [g EXCEPT !.slots = Append(g.slots, Some(w))]

add_edge(g, a, b, f) ==
    [g EXCEPT !.edges = Append(g.edges, [src |-> a, dst |-> b, flow |-> f])]

RECURSIVE Reverse(_)
Reverse(s) == IF s = <<>> THEN <<>> ELSE Append(Reverse(Tail(s)), Head(s))

\* positions (in edges) of the outgoing / incoming edges of a node,
\* most recently added first
EdgePositionsOut(g, a) ==
    Reverse(SortedSeq({k \in 1..Len(g.edges) : g.edges[k].src = a}))
EdgePositionsIn(g, b) ==
    Reverse(SortedSeq({k \in 1..Len(g.edges) : g.edges[k].dst = b}))

SeqMapDst(g, ps) == [k \in 1..Len(ps) |-> g.edges[ps[k]].dst]

\* neighbors_directed(node, Outgoing): one entry per outgoing edge
NeighborsOut(g, a) == SeqMapDst(g, EdgePositionsOut(g, a))

\* find_edge(a, b): the first a -> b edge of a's outgoing list
find_edge(g, a, b) ==
    LET ps == {k \in 1..Len(g.edges) : g.edges[k].src = a /\ g.edges[k].dst = b}
    IN IF ps = {} THEN None
       ELSE Some(CHOOSE k \in ps : \A j \in ps : j <= k)

RemoveAt(s, k) == [j \in 1..(Len(s) - 1) |-> IF j < k THEN s[j] ELSE s[j + 1]]

remove_edge(g, k) == [g EXCEPT !.edges = RemoveAt(g.edges, k)]

\* a removal that drops the node's weight and leaves its edges in place
RemoveNodeOnly(g, i) ==
    IF ~IsLive(g, i) THEN g
    ELSE [g EXCEPT !.slots[i + 1] = None, !.free = <<i>> \o g.free]

\* remove_node: drops the node's weight and every incident edge, and puts
\* the index on top of the free list
remove_node(g, i) ==
    IF ~IsLive(g, i) THEN g
    ELSE [g EXCEPT !.slots[i + 1] = None,
                   !.free = <<i>> \o g.free,
                   !.edges = SelectSeq(g.edges, LAMBDA e : e.src # i /\ e.dst # i)]

(***************************************************************************)
(* Cycle guard: has_cycle / is_cyclic_util.  visited and rec_stack are     *)
(* vectors of node_count() booleans indexed by node.index(); an index at   *)
(* or past their length is an out-of-bounds access, which panics.          *)
(*   d = [n, visited, rec_stack, r], r in {"false", "true", "panic"}       *)
(***************************************************************************)
InBounds(d, i) == i < d.n

RECURSIVE is_cyclic_util(_, _, _), CyclicNeighbors(_, _, _)
is_cyclic_util(g, node, d) ==
    IF ~InBounds(d, node) THEN [d EXCEPT !.r = "panic"]
    ELSE LET d1 == [d EXCEPT !.visited = @ \cup {node},
                             !.rec_stack = @ \cup {node}]
             d2 == CyclicNeighbors(g, NeighborsOut(g, node), d1)
         IN IF d2.r # "false" THEN d2
            ELSE [d2 EXCEPT !.rec_stack = @ \ {node}]

\* the for loop over the outgoing neighbors of one node
CyclicNeighbors(g, nbrs, d) ==
    IF nbrs = <<>> THEN d
    ELSE LET nb == Head(nbrs)
         IN IF ~InBounds(d, nb) THEN [d EXCEPT !.r = "panic"]
            ELSE IF nb \notin d.visited
            THEN LET d2 == is_cyclic_util(g, nb, d)
                 IN IF d2.r # "false" THEN d2
                    ELSE CyclicNeighbors(g, Tail(nbrs), d2)
            ELSE IF nb \in d.rec_stack THEN [d EXCEPT !.r = "true"]
            ELSE CyclicNeighbors(g, Tail(nbrs), d)

\* the for loop of has_cycle over node_indices()
RECURSIVE HasCycleLoop(_, _, _)
HasCycleLoop(g, nodes, d) ==
    IF nodes = <<>> THEN d
    ELSE LET node == Head(nodes)
         IN IF ~InBounds(d, node) THEN [d EXCEPT !.r = "panic"]
            ELSE IF node \notin d.visited
            THEN LET d2 == is_cyclic_util(g, node, d)
                 IN IF d2.r # "false" THEN d2
                    ELSE HasCycleLoop(g, Tail(nodes), d2)
            ELSE HasCycleLoop(g, Tail(nodes), d)

\* "false", "true" or "panic"
has_cycle(g) ==
    HasCycleLoop(g, node_indices(g),
                 [n |-> node_count(g), visited |-> {}, rec_stack |-> {},
                  r |-> "false"]).r

(***************************************************************************)
(* The graph store.  A store is [agents, workflow, name_to_node]:          *)
(*   agents       : name -> Option<unit handle>      (the DashMap)         *)
(*   workflow     : the StableGraph                                        *)
(*   name_to_node : name -> Option<NodeIndex>        (the HashMap)         *)
(* Each operation returns [s |-> the store after the call, res |-> result] *)
(***************************************************************************)
StoreNew ==
    [agents |-> [n \in Names |-> None],
     workflow |-> StableGraphNew,
     name_to_node |-> [n \in Names |-> None]]

\* name_to_node.entry(name).or_insert_with(|| workflow.add_node(..))
EntryOrInsert(s, name) ==
    IF IsSome(s.name_to_node[name]) THEN s
    ELSE [s EXCEPT !.name_to_node[name] = Some(NextIndex(s.workflow)),
                   !.workflow = add_node(s.workflow, AgentNode(name))]

\* a registration that adds a node whether or not the name has one
RegisterAddsNode(s, name, impl) ==
    [s |-> [s EXCEPT !.agents[name] = Some(impl),
                     !.name_to_node[name] = Some(NextIndex(s.workflow)),
                     !.workflow = add_node(s.workflow, AgentNode(name))],
     res |-> "Ok"]

register_agent(s, name, impl) ==
    [s |-> EntryOrInsert([s EXCEPT !.agents[name] = Some(impl)], name),
     res |-> "Ok"]

\* what connect_agents does once has_cycle has answered
CycleCheck(s1, s2) ==
    LET hc == has_cycle(s2.workflow)
    IN IF hc = "panic" THEN [s |-> s2, res |-> "Panic"]
       ELSE IF hc = "true"
       THEN [s |-> [s2 EXCEPT !.workflow =
                        remove_edge(s2.workflow, Len(s2.workflow.edges))],
             res |-> "CycleDetected"]
       ELSE [s |-> s2, res |-> "Ok"]

\* a connect that checks the registration of the source only
ConnectFromOnly(s, from, to, flow) ==
    IF ~IsSome(s.agents[from])
    THEN [s |-> s, res |-> "AgentNotFound"]
    ELSE LET s0 == EntryOrInsert(s, from)
             s1 == EntryOrInsert(s0, to)
             s2 == [s1 EXCEPT !.workflow =
                        add_edge(s1.workflow, Unwrap(s1.name_to_node[from]),
                                 Unwrap(s1.name_to_node[to]), flow)]
         IN CycleCheck(s1, s2)

connect_agents(s, from, to, flow) ==
    IF ~IsSome(s.agents[from]) \/ ~IsSome(s.agents[to])
    THEN [s |-> s, res |-> "AgentNotFound"]
    ELSE LET s0 == EntryOrInsert(s, from)
             s1 == EntryOrInsert(s0, to)
             s2 == [s1 EXCEPT !.workflow =
                        add_edge(s1.workflow, Unwrap(s1.name_to_node[from]),
                                 Unwrap(s1.name_to_node[to]), flow)]
         IN CycleCheck(s1, s2)

\* a disconnect that removes every edge between the pair
DisconnectAll(s, from, to) ==
    IF ~IsSome(s.name_to_node[from]) \/ ~IsSome(s.name_to_node[to])
    THEN [s |-> s, res |-> "AgentNotFound"]
    ELSE LET a == Unwrap(s.name_to_node[from])
             b == Unwrap(s.name_to_node[to])
         IN IF IsSome(find_edge(s.workflow, a, b))
            THEN [s |-> [s EXCEPT !.workflow.edges =
                            SelectSeq(@, LAMBDA e : ~(e.src = a /\ e.dst = b))],
                  res |-> "Ok"]
            ELSE [s |-> s, res |-> "AgentNotFound"]

disconnect_agents(s, from, to) ==
    IF ~IsSome(s.name_to_node[from]) \/ ~IsSome(s.name_to_node[to])
    THEN [s |-> s, res |-> "AgentNotFound"]
    ELSE LET e == find_edge(s.workflow, Unwrap(s.name_to_node[from]),
                            Unwrap(s.name_to_node[to]))
         IN IF IsSome(e)
            THEN [s |-> [s EXCEPT !.workflow = remove_edge(s.workflow, Unwrap(e))],
                  res |-> "Ok"]
            ELSE [s |-> s, res |-> "AgentNotFound"]

\* a removal that leaves the unit registered
RemoveNodeKeepUnit(s, name) ==
    IF IsSome(s.name_to_node[name])
    THEN [s |-> [s EXCEPT !.workflow =
                     remove_node(s.workflow, Unwrap(s.name_to_node[name])),
                          !.name_to_node[name] = None],
          res |-> "Ok"]
    ELSE [s |-> s, res |-> "AgentNotFound"]

remove_agent(s, name) ==
    IF IsSome(s.name_to_node[name])
    THEN [s |-> [s EXCEPT !.workflow =
                     remove_node(s.workflow, Unwrap(s.name_to_node[name])),
                          !.name_to_node[name] = None,
                          !.agents[name] = None],
          res |-> "Ok"]
    ELSE [s |-> s, res |-> "AgentNotFound"]

(***************************************************************************)
(* Values of the execution engine.                                         *)
(*   output    : what a unit returns on success, [by, trigger]: the unit   *)
(*               that produced it and whether the text holds "trigger"     *)
(*   forwarded : what an edge hands on, [transformed, out]                 *)
(*   input     : the initial input of the workflow, or the aggregated      *)
(*               "[From <source>] <forwarded>" fragments joined by the     *)
(*               separator, [tag, parts]                                   *)
(*   Result    : [ok, out, err, msg]                                       *)
(***************************************************************************)
NoOut == [by |-> "", trigger |-> FALSE]
Ok(out) == [ok |-> TRUE, out |-> out, err |-> "", msg |-> ""]
Err(kind, msg) == [ok |-> FALSE, out |-> NoOut, err |-> kind, msg |-> msg]

InitialInput == [tag |-> "initial", parts |-> <<>>]

\* an edge that forwards the output as it is, transform or not
RawOutput(flow, output) == [transformed |-> FALSE, out |-> output]

\* the edge's transform applied to the output, or the output unchanged
next_input(flow, output) == [transformed |-> flow.transform, out |-> output]

\* the edge's condition applied to an output; no condition is true
Cond(flow, output) == IF flow.condition THEN output.trigger ELSE TRUE

name_of(g, i) == Unwrap(node_weight(g, i)).name

\* what a unit's run can end with; a timeout needs the unit to be pending
Outcomes == {"ok", "ok_trigger", "err", "timeout"}
ImmediateOutcomes == Outcomes \ {"timeout"}

\* execute_agent's result for a unit outcome
AgentResult(name, o) ==
    IF o = "err" THEN Err("AgentError", "unit error")
    ELSE Ok([by |-> name, trigger |-> (o = "ok_trigger")])

(***************************************************************************)
(* A run is [workflow, results, edge_tracker, processed_nodes, frames,     *)
(* pollq, invoked].  A frame is one execute_node call:                     *)
(*   [node, parent, st, ret]; parent is the frame whose edge future made   *)
(*   the call, 0 for a start task; st is "unit" while the unit's run is    *)
(*   awaited, "cached" when the memoization check returned, "ran" after.   *)
(* pollq holds the start tasks and edge futures that join_all has yet to   *)
(* poll for the first time, in the order it polls them.                    *)
(***************************************************************************)
\* a check that counts every edge not yet processed as skipped
SkippedUnseen(g, res, tr, e) == [skip |-> TRUE, tracker |-> tr \cup {e}]

\* all_processed: the .all() over the incoming edges, left to right,
\* stopping at the first edge that is neither processed nor skipped
\* a join that does not wait: the incoming edges always count as settled
AllProcessedNoWait(g, res, tr, es) == [all |-> TRUE, tracker |-> tr]

RECURSIVE all_processed(_, _, _, _)
conditionally_skipped(g, res, tr, e) ==
    LET fe == find_edge(g, e[1], e[2])
    IN IF ~IsSome(fe) THEN [skip |-> FALSE, tracker |-> tr]
       ELSE IF ~g.edges[Unwrap(fe)].flow.condition
       THEN [skip |-> FALSE, tracker |-> tr]
       ELSE IF ~IsSome(node_weight(g, e[1])) THEN [skip |-> FALSE, tracker |-> tr]
       ELSE LET source_result == res[name_of(g, e[1])]
            IN IF ~IsSome(source_result) THEN [skip |-> FALSE, tracker |-> tr]
               ELSE IF Unwrap(source_result).ok
               THEN IF ~Cond(g.edges[Unwrap(fe)].flow, Unwrap(source_result).out)
                    THEN [skip |-> TRUE, tracker |-> tr \cup {e}]
                    ELSE [skip |-> FALSE, tracker |-> tr]
               ELSE [skip |-> TRUE, tracker |-> tr \cup {e}]

all_processed(g, res, tr, es) ==
    IF es = <<>> THEN [all |-> TRUE, tracker |-> tr]
    ELSE IF Head(es) \in tr THEN all_processed(g, res, tr, Tail(es))
    ELSE LET c == conditionally_skipped(g, res, tr, Head(es))
         IN IF c.skip THEN all_processed(g, res, c.tracker, Tail(es))
            ELSE [all |-> FALSE, tracker |-> tr]

\* all_incoming_edges: (source, target) of every incoming edge of target
all_incoming_edges(g, target) ==
    LET ps == EdgePositionsIn(g, target)
    IN [k \in 1..Len(ps) |-> <<g.edges[ps[k]].src, target>>]

\* the pending inputs left in their order of arrival
NoSort(inputs) == inputs

\* sort_by_key(source index): stable insertion sort of <<source, input>> pairs
RECURSIVE InsertByKey(_, _), sort_by_key(_)
InsertByKey(sorted, x) ==
    IF sorted = <<>> THEN <<x>>
    ELSE IF x[1] < Head(sorted)[1] THEN <<x>> \o sorted
    ELSE <<Head(sorted)>> \o InsertByKey(Tail(sorted), x)
sort_by_key(inputs) ==
    IF inputs = <<>> THEN <<>>
    ELSE InsertByKey(sort_by_key(SubSeq(inputs, 1, Len(inputs) - 1)),
                     inputs[Len(inputs)])

\* format!("[From {source_name}] {input}") for each, joined by the separator
aggregated_input(g, inputs) ==
    LET sorted_inputs == sort_by_key(inputs)
    IN [tag |-> "aggregated",
        parts |-> [k \in 1..Len(sorted_inputs) |->
                      [from |-> name_of(g, sorted_inputs[k][1]),
                       input |-> sorted_inputs[k][2]]]]

NodeIds == 0..(Cardinality(Names) - 1)

Frame(node, parent, st, r) == [node |-> node, parent |-> parent, st |-> st, ret |-> r]

\* a start task of execute_workflow, not yet polled
StartItem(node) ==
    [kind |-> "start", parent |-> 0, src |-> node, dst |-> node,
     flow |-> FlowDefault, output |-> NoOut]

\* the future of one valid edge of frame f, not yet polled
EdgeItem(f, e, output) ==
    [kind |-> "edge", parent |-> f, src |-> e.src, dst |-> e.dst,
     flow |-> e.flow, output |-> output]

\* every outgoing edge, whatever its condition
AllEdges(g, node, output) ==
    LET ps == EdgePositionsOut(g, node)
    IN [k \in 1..Len(ps) |-> g.edges[ps[k]]]

\* a filter that stops at the first outgoing edge whose condition fails
RECURSIVE TakeWhileValid(_, _, _)
TakeWhileValid(g, ps, output) ==
    IF ps = <<>> THEN <<>>
    ELSE IF ~Cond(g.edges[Head(ps)].flow, output) THEN <<>>
    ELSE <<g.edges[Head(ps)]>> \o TakeWhileValid(g, Tail(ps), output)
ValidUntilFalse(g, node, output) ==
    TakeWhileValid(g, EdgePositionsOut(g, node), output)

\* valid_edges: the outgoing edges whose condition passes, in iteration order
valid_edges(g, node, output) ==
    LET ps == SelectSeq(EdgePositionsOut(g, node),
                        LAMBDA k : Cond(g.edges[k].flow, output))
    IN [k \in 1..Len(ps) |-> g.edges[ps[k]]]

\* a record step that leaves the node's cached last result as it is
KeepLastResult(g, node, result) == g

SetLastResult(g, node, result) ==
    IF IsLive(g, node)
    THEN [g EXCEPT !.slots[node + 1] =
             Some([name |-> name_of(g, node), last_result |-> Some(result)])]
    ELSE g

\* a record step that creates the edge futures after a failure too
RecordAndPropagate(r, f, result) ==
    LET node == r.frames[f].node
        name == name_of(r.workflow, node)
        ve == valid_edges(r.workflow, node, result.out)
    IN [r EXCEPT !.results[name] = Some(result),
                 !.workflow = SetLastResult(r.workflow, node, result),
                 !.frames[f] = [@ EXCEPT !.st = "ran", !.ret = Some(result)],
                 !.pollq = [k \in 1..Len(ve) |-> EdgeItem(f, ve[k], result.out)]
                           \o r.pollq]

\* execute_node from "Store the result" on: record the result, and on
\* success create the futures of the valid edges, which join_all polls next
Record(r, f, result) ==
    LET node == r.frames[f].node
        name == name_of(r.workflow, node)
        ve == IF result.ok THEN valid_edges(r.workflow, node, result.out) ELSE <<>>
    IN [r EXCEPT !.results[name] = Some(result),
                 !.workflow = SetLastResult(r.workflow, node, result),
                 !.frames[f] = [@ EXCEPT !.st = "ran", !.ret = Some(result)],
                 !.pollq = [k \in 1..Len(ve) |-> EdgeItem(f, ve[k], result.out)]
                           \o r.pollq]

\* the timeout's map_err(..)? : the call returns before anything is stored
TimedOut(r, f) ==
    [r EXCEPT !.frames[f] =
        [@ EXCEPT !.st = "ran",
                  !.ret = Some(Err("Timeout", name_of(r.workflow, r.frames[f].node)))]]

\* the awaited unit of frame f ends with outcome o
unit_done(r, f, o) ==
    IF o = "timeout" THEN TimedOut(r, f)
    ELSE Record(r, f, AgentResult(name_of(r.workflow, r.frames[f].node), o))

\* execute_node without its memoization check
ExecuteNodeNoMemo(r, ag, node, input, parent) ==
    LET name == name_of(r.workflow, node)
    IN IF ~IsSome(ag[name])
       THEN Record([r EXCEPT !.frames =
                       Append(@, Frame(node, parent, "unit", None))],
                   Len(r.frames) + 1, Err("AgentNotFound", name))
       ELSE [r EXCEPT !.frames = Append(@, Frame(node, parent, "unit", None)),
                      !.invoked[name] = Append(@, input)]

\* execute_node up to its first suspension: the memoization check, then
\* execute_agent, whose unit is left pending
execute_node(r, ag, node, input, parent) ==
    IF ~IsSome(node_weight(r.workflow, node))
    THEN [r EXCEPT !.frames = Append(@, Frame(node, parent, "cached",
                        Some(Err("AgentNotFound", "Node not found in graph"))))]
    ELSE LET name == name_of(r.workflow, node)
         IN IF IsSome(r.results[name])
            THEN [r EXCEPT !.frames =
                     Append(@, Frame(node, parent, "cached", r.results[name]))]
            ELSE IF ~IsSome(ag[name])
            THEN Record([r EXCEPT !.frames =
                            Append(@, Frame(node, parent, "unit", None))],
                        Len(r.frames) + 1, Err("AgentNotFound", name))
            ELSE [r EXCEPT !.frames = Append(@, Frame(node, parent, "unit", None)),
                           !.invoked[name] = Append(@, input)]

\* an edge future that dispatches its target without the check of the
\* target's incoming edges
PollEdgeUnchecked(r, ag, it) ==
    LET r1 == [r EXCEPT !.edge_tracker = @ \cup {<<it.src, it.dst>>},
                        !.processed_nodes[it.dst] =
                            Append(@, <<it.src, next_input(it.flow, it.output)>>)]
    IN execute_node(r1, ag, it.dst,
                    aggregated_input(r1.workflow, r1.processed_nodes[it.dst]),
                    it.parent)

\* an edge future that waits for the other incoming edges of its target:
\* while they are not all settled it stays among the futures to be polled
PollEdgeWaits(r, ag, it) ==
    LET g == r.workflow
        r1 == [r EXCEPT !.edge_tracker = @ \cup {<<it.src, it.dst>>},
                        !.processed_nodes[it.dst] =
                            Append(@, <<it.src, next_input(it.flow, it.output)>>)]
        ap == all_processed(g, r1.results, r1.edge_tracker,
                            all_incoming_edges(g, it.dst))
        r2 == [r1 EXCEPT !.edge_tracker = ap.tracker]
    IN IF ap.all
       THEN execute_node(r2, ag, it.dst,
                         aggregated_input(g, r2.processed_nodes[it.dst]), it.parent)
       ELSE [r EXCEPT !.pollq = Append(@, it)]

\* the first poll of the future of one valid edge
poll_edge(r, ag, it) ==
    LET g == r.workflow
        r1 == [r EXCEPT !.edge_tracker = @ \cup {<<it.src, it.dst>>},
                        !.processed_nodes[it.dst] =
                            Append(@, <<it.src, next_input(it.flow, it.output)>>)]
        ap == all_processed(g, r1.results, r1.edge_tracker,
                            all_incoming_edges(g, it.dst))
        r2 == [r1 EXCEPT !.edge_tracker = ap.tracker]
    IN IF ap.all
       THEN execute_node(r2, ag, it.dst,
                         aggregated_input(g, r2.processed_nodes[it.dst]), it.parent)
       ELSE r2

\* the first poll of the head of pollq
poll(r, ag) ==
    LET it == Head(r.pollq)
        r0 == [r EXCEPT !.pollq = Tail(@)]
    IN IF it.kind = "start" THEN execute_node(r0, ag, it.src, InitialInput, 0)
       ELSE poll_edge(r0, ag, it)

\* the poll left a unit awaited in a new frame
Invoking(r, rp) ==
    /\ Len(rp.frames) = Len(r.frames) + 1
    /\ rp.frames[Len(rp.frames)].st = "unit"

\* execute_workflow's lookup of the start names
StartsKnown(n2n, sl) == \A k \in 1..Len(sl) : IsSome(n2n[sl[k]])

\* a start of execute_workflow that leaves the cached last results alone
NoReset(g) == g

\* "Reset all results"
ResetResults(g) ==
    [g EXCEPT !.slots = [k \in 1..Len(g.slots) |->
        IF IsSome(g.slots[k])
        THEN Some([name |-> Unwrap(g.slots[k]).name, last_result |-> None])
        ELSE None]]

\* what execute_workflow returns once join_all(tasks) is done: the first
\* error among the start tasks as an ExecutionError, else the results map
WorkflowReturn(r) ==
    IF \E f \in 1..Len(r.frames) :
           r.frames[f].parent = 0 /\ ~Unwrap(r.frames[f].ret).ok
    THEN [ok |-> FALSE, err |-> "ExecutionError", map |-> [n \in Names |-> None]]
    ELSE [ok |-> TRUE, err |-> "", map |-> r.results]

\* get_workflow_structure: for the name of every node, the
\* <<target name, has a transform>> of its outgoing edges
get_workflow_structure(g) ==
    [n \in {name_of(g, i) : i \in LiveSet(g)} |->
        LET i == CHOOSE j \in LiveSet(g) : name_of(g, j) = n
            ps == EdgePositionsOut(g, i)
        IN [k \in 1..Len(ps) |->
               <<name_of(g, g.edges[ps[k]].dst), g.edges[ps[k]].flow.transform>>]]

(***************************************************************************)
(* The diagnostics: find_execution_paths / dfs_paths and                   *)
(* detect_potential_deadlocks.  Both read the store and change nothing.    *)
(***************************************************************************)
\* a traversal that follows the first outgoing edge of each node only
RECURSIVE FirstPath(_, _, _)
FirstPath(g, i, cur) ==
    IF NeighborsOut(g, i) = <<>> THEN Append(cur, name_of(g, i))
    ELSE FirstPath(g, Head(NeighborsOut(g, i)), Append(cur, name_of(g, i)))

DfsFirstOnly(g, node_idx, current_path, all_paths) ==
    IF ~IsSome(node_weight(g, node_idx)) THEN all_paths
    ELSE Append(all_paths, FirstPath(g, node_idx, current_path))

\* dfs_paths: all_paths after the call; current_path is as before the call
\* when it returns (push, then pop)
RECURSIVE dfs_paths(_, _, _, _), DfsNeighbors(_, _, _, _)
dfs_paths(g, node_idx, current_path, all_paths) ==
    IF ~IsSome(node_weight(g, node_idx)) THEN all_paths
    ELSE LET path == Append(current_path, name_of(g, node_idx))
             nbrs == NeighborsOut(g, node_idx)
         IN IF Len(nbrs) = 0 THEN Append(all_paths, path)
            ELSE DfsNeighbors(g, nbrs, path, all_paths)

\* the for loop over the outgoing neighbors
DfsNeighbors(g, nbrs, current_path, all_paths) ==
    IF nbrs = <<>> THEN all_paths
    ELSE DfsNeighbors(g, Tail(nbrs), current_path,
                      dfs_paths(g, Head(nbrs), current_path, all_paths))

\* the for loop over start_indices
RECURSIVE FindLoop(_, _, _)
FindLoop(s, sl, paths) ==
    IF sl = <<>> THEN paths
    ELSE FindLoop(s, Tail(sl),
                  dfs_paths(s.workflow, Unwrap(s.name_to_node[Head(sl)]), <<>>, paths))

find_execution_paths(s, sl) ==
    IF ~StartsKnown(s.name_to_node, sl)
    THEN [res |-> "AgentNotFound", paths |-> <<>>]
    ELSE [res |-> "Ok", paths |-> FindLoop(s, sl, <<>>)]

\* the dependency graph: a node for every key of name_to_node, and an edge
\* source -> node for every incoming edge of every node of the workflow
DependencyEdges(s) ==
    {<<name_of(s.workflow, s.workflow.edges[k].src),
       name_of(s.workflow, s.workflow.edges[k].dst)>> : k \in 1..Len(s.workflow.edges)}

RECURSIVE DepReach(_, _, _)
DepReach(E, S, n) ==
    IF n = 0 THEN S
    ELSE DepReach(E, S \cup {e[2] : e \in {d \in E : d[1] \in S}}, n - 1)

\* kosaraju_scc: the strongly connected components, as sets of names
kosaraju_scc(V, E) ==
    {{m \in V : /\ m \in DepReach(E, {n}, Cardinality(V))
                 /\ n \in DepReach(E, {m}, Cardinality(V))} : n \in V}

\* the components of more than one node; node_map.get(..).unwrap() panics
\* on a node whose name is not a key of name_to_node
detect_potential_deadlocks(s) ==
    LET V == {n \in Names : IsSome(s.name_to_node[n])}
    IN IF \E i \in LiveSet(s.workflow) : name_of(s.workflow, i) \notin V
       THEN [res |-> "Panic", sccs |-> {}]
       ELSE [res |-> "Ok",
             sccs |-> {c \in kosaraju_scc(V, DependencyEdges(s)) : Cardinality(c) > 1}]

(***************************************************************************)
(* The state of a DAGWorkflow and of the run it is executing               *)
(***************************************************************************)
Store == [agents |-> agents, workflow |-> workflow, name_to_node |-> name_to_node]

SetStore(s) ==
    /\ agents' = s.agents
    /\ workflow' = s.workflow
    /\ name_to_node' = s.name_to_node

Run ==
    [workflow |-> workflow, results |-> results, edge_tracker |-> edge_tracker,
     processed_nodes |-> processed_nodes, frames |-> frames, pollq |-> pollq,
     invoked |-> invoked]

SetRun(r) ==
    /\ workflow' = r.workflow
    /\ results' = r.results
    /\ edge_tracker' = r.edge_tracker
    /\ processed_nodes' = r.processed_nodes
    /\ frames' = r.frames
    /\ pollq' = r.pollq
    /\ invoked' = r.invoked

\* the run-scoped state execute_workflow allocates
NoRun ==
    /\ results = [n \in Names |-> None]
    /\ edge_tracker = {}
    /\ processed_nodes = [i \in NodeIds |-> <<>>]
    /\ frames = <<>>
    /\ pollq = <<>>
    /\ invoked = [n \in Names |-> <<>>]

InitIdle ==
    /\ phase = "idle"
    /\ starts = <<>>
    /\ NoRun
    /\ wret = None
    /\ runs = 0

(***************************************************************************)
(* The graph-store specification: any sequence of register, connect,       *)
(* disconnect and remove calls on a new DAGWorkflow.  ret is the last      *)
(* call and its result; a panic ends the behaviour.                        *)
(***************************************************************************)
Return(op, r) ==
    /\ SetStore(r.s)
    /\ ret' = [op |-> op, res |-> r.res]
    /\ panicked' = (r.res = "Panic")
    /\ UNCHANGED rvars

Init ==
    /\ agents = StoreNew.agents
    /\ workflow = StoreNew.workflow
    /\ name_to_node = StoreNew.name_to_node
    /\ ret = [op |-> "new", res |-> "Ok"]
    /\ panicked = FALSE
    /\ InitIdle

RegisterAgent(name, impl) ==
    /\ ~panicked
    /\ Return("register_agent", register_agent(Store, name, impl))

ConnectAgents(from, to, flow) ==
    /\ ~panicked
    /\ Len(workflow.edges) < MaxEdges
    /\ Return("connect_agents", connect_agents(Store, from, to, flow))

DisconnectAgents(from, to) ==
    /\ ~panicked
    /\ Return("disconnect_agents", disconnect_agents(Store, from, to))

RemoveAgent(name) ==
    /\ ~panicked
    /\ Return("remove_agent", remove_agent(Store, name))

Next ==
    \/ \E name \in BuildNames, impl \in Impls : RegisterAgent(name, impl)
    \/ \E from \in BuildNames, to \in BuildNames, flow \in BuildFlows :
           ConnectAgents(from, to, flow)
    \/ \E from \in BuildNames, to \in BuildNames : DisconnectAgents(from, to)
    \/ \E name \in BuildNames : RemoveAgent(name)

Spec == Init /\ [][Next]_vars

(***************************************************************************)
(* The execution specification: execute_workflow on graphs built by the    *)
(* store's operations.                                                     *)
(***************************************************************************)
Reg(n) == [op |-> "register", a |-> n, b |-> n, flow |-> FlowDefault]
Con(a, b, f) == [op |-> "connect", a |-> a, b |-> b, flow |-> f]
Rem(n) == [op |-> "remove", a |-> n, b |-> n, flow |-> FlowDefault]

ApplyOp(s, o) ==
    IF o.op = "register" THEN register_agent(s, o.a, "u1").s
    ELSE IF o.op = "connect" THEN connect_agents(s, o.a, o.b, o.flow).s
    ELSE remove_agent(s, o.a).s

RECURSIVE Build(_, _)
Build(s, ops) == IF ops = <<>> THEN s ELSE Build(ApplyOp(s, Head(ops)), Tail(ops))

\* the call sequences that build the graphs the runs start from
Diamond ==
    <<Reg("a"), Reg("b"), Reg("c"), Reg("d"),
      Con("a", "b", FlowDefault), Con("a", "c", FlowDefault),
      Con("b", "d", FlowDefault), Con("c", "d", FlowDefault)>>
Joins ==
    {<<Reg("a"), Reg("b"), Reg("c"), Con("a", "c", f1), Con("b", "c", f2)>> :
        f1 \in Flows, f2 \in Flows}
JoinReversed ==
    <<Reg("c"), Reg("b"), Reg("a"),
      Con("a", "c", FlowDefault), Con("b", "c", FlowDefault)>>
Chains ==
    {<<Reg("a"), Reg("b"), Reg("c"), Con("a", "b", f1), Con("b", "c", f2)>> :
        f1 \in Flows, f2 \in Flows}
FanOut ==
    <<Reg("a"), Reg("b"), Reg("c"), Reg("d"),
      Con("a", "b", FlowDefault), Con("a", "c", FlowDefault),
      Con("c", "d", FlowDefault)>>
Triangles ==
    {<<Reg("a"), Reg("b"), Reg("c"),
       Con("a", "b", FlowDefault), Con("a", "c", f1), Con("b", "c", f2)>> :
        f1 \in BuildFlows, f2 \in BuildFlows}
\* the same triangle with a -> c connected first, so that a -> b is polled first
TrianglesLate ==
    {<<Reg("a"), Reg("b"), Reg("c"),
       Con("a", "c", f1), Con("a", "b", FlowDefault), Con("b", "c", f2)>> :
        f1 \in BuildFlows, f2 \in BuildFlows}
Parallels ==
    {<<Reg("a"), Reg("b"), Con("a", "b", f1), Con("a", "b", f2)>> :
        f1 \in Flows, f2 \in Flows}
Removed ==
    <<Reg("a"), Reg("b"), Reg("c"), Con("b", "c", FlowDefault), Rem("a")>>

Scenarios ==
    {Diamond, JoinReversed, FanOut, Removed}
        \cup Joins \cup Chains \cup Triangles \cup TrianglesLate \cup Parallels

\* the start lists execute_workflow is called with
StartLists ==
    {<<n>> : n \in Names} \cup {<<n, m>> : n \in {"a", "b"}, m \in {"a", "b"}}
        \cup {<<"a", "d">>, <<"d", "a">>}
\* a start list that names a node twice is tried on graphs of at most this
\* many edges
MaxDupEdges == 2
StartListsFor(g) ==
    {sl \in StartLists :
        Len(g.edges) > MaxDupEdges => \A i, j \in 1..Len(sl) : sl[i] = sl[j] => i = j}
\* execute_workflow is called at most this many times
MaxRuns == 2

InitRun ==
    /\ \E ops \in Scenarios : \E s \in {Build(StoreNew, ops)} :
           /\ agents = s.agents
           /\ workflow = s.workflow
           /\ name_to_node = s.name_to_node
    /\ ret = [op |-> "new", res |-> "Ok"]
    /\ panicked = FALSE
    /\ InitIdle

\* an execute_workflow that resets the cached results before it looks the
\* start names up
ExecuteWorkflowResetFirst(sl) ==
    /\ phase = "idle"
    /\ ~panicked
    /\ runs < MaxRuns
    /\ runs' = runs + 1
    /\ starts' = sl
    /\ workflow' = ResetResults(workflow)
    /\ IF ~StartsKnown(name_to_node, sl)
       THEN /\ wret' = Some([ok |-> FALSE, err |-> "AgentNotFound",
                             map |-> [n \in Names |-> None]])
            /\ UNCHANGED <<phase, results, edge_tracker,
                           processed_nodes, frames, pollq, invoked>>
       ELSE /\ results' = [n \in Names |-> None]
            /\ edge_tracker' = {}
            /\ processed_nodes' = [i \in NodeIds |-> <<>>]
            /\ frames' = <<>>
            /\ pollq' = [k \in 1..Len(sl) |-> StartItem(Unwrap(name_to_node[sl[k]]))]
            /\ invoked' = [n \in Names |-> <<>>]
            /\ phase' = "running"
            /\ wret' = None
    /\ UNCHANGED <<agents, name_to_node, ret, panicked>>

\* an execute_workflow that creates a start task for every node of the graph
ExecuteWorkflowAllNodes(sl) ==
    /\ phase = "idle"
    /\ ~panicked
    /\ runs < MaxRuns
    /\ runs' = runs + 1
    /\ starts' = sl
    /\ IF ~StartsKnown(name_to_node, sl)
       THEN /\ wret' = Some([ok |-> FALSE, err |-> "AgentNotFound",
                             map |-> [n \in Names |-> None]])
            /\ UNCHANGED <<workflow, phase, results, edge_tracker,
                           processed_nodes, frames, pollq, invoked>>
       ELSE /\ workflow' = ResetResults(workflow)
            /\ results' = [n \in Names |-> None]
            /\ edge_tracker' = {}
            /\ processed_nodes' = [i \in NodeIds |-> <<>>]
            /\ frames' = <<>>
            /\ pollq' = [k \in 1..Len(node_indices(workflow)) |->
                             StartItem(node_indices(workflow)[k])]
            /\ invoked' = [n \in Names |-> <<>>]
            /\ phase' = "running"
            /\ wret' = None
    /\ UNCHANGED <<agents, name_to_node, ret, panicked>>

\* execute_workflow up to its join_all(tasks).await
ExecuteWorkflow(sl) ==
    /\ phase = "idle"
    /\ ~panicked
    /\ runs < MaxRuns
    /\ runs' = runs + 1
    /\ starts' = sl
    /\ IF ~StartsKnown(name_to_node, sl)
       THEN /\ wret' = Some([ok |-> FALSE, err |-> "AgentNotFound",
                             map |-> [n \in Names |-> None]])
            /\ UNCHANGED <<workflow, phase, results, edge_tracker,
                           processed_nodes, frames, pollq, invoked>>
       ELSE /\ workflow' = ResetResults(workflow)
            /\ results' = [n \in Names |-> None]
            /\ edge_tracker' = {}
            /\ processed_nodes' = [i \in NodeIds |-> <<>>]
            /\ frames' = <<>>
            /\ pollq' = [k \in 1..Len(sl) |-> StartItem(Unwrap(name_to_node[sl[k]]))]
            /\ invoked' = [n \in Names |-> <<>>]
            /\ phase' = "running"
            /\ wret' = None
    /\ UNCHANGED <<agents, name_to_node, ret, panicked>>

\* join_all polls the next start task or edge future for the first time;
\* a unit it runs is ready at once with outcome o, or is left pending
Poll(o) ==
    /\ phase = "running"
    /\ pollq # <<>>
    /\ LET rp == poll(Run, agents)
       IN /\ (o # "pending") => Invoking(Run, rp)
          /\ SetRun(IF o = "pending" THEN rp ELSE unit_done(rp, Len(rp.frames), o))
    /\ UNCHANGED <<agents, name_to_node, ret, panicked, phase, starts, wret, runs>>

\* a pending unit ends (or its timeout fires) and its execute_node resumes
UnitCompletes(f, o) ==
    /\ phase = "running"
    /\ pollq = <<>>
    /\ f \in 1..Len(frames)
    /\ frames[f].st = "unit"
    /\ SetRun(unit_done(Run, f, o))
    /\ UNCHANGED <<agents, name_to_node, ret, panicked, phase, starts, wret, runs>>

\* a return as soon as the unit of every start node has ended, whatever the
\* start tasks have dispatched
ExecuteWorkflowReturnsEarly ==
    /\ phase = "running"
    /\ \A k \in 1..Len(pollq) : pollq[k].kind # "start"
    /\ \A f \in 1..Len(frames) : frames[f].parent = 0 => frames[f].st # "unit"
    /\ phase' = "idle"
    /\ wret' = Some(WorkflowReturn(Run))
    /\ results' = [n \in Names |-> None]
    /\ edge_tracker' = {}
    /\ processed_nodes' = [i \in NodeIds |-> <<>>]
    /\ frames' = <<>>
    /\ pollq' = <<>>
    /\ UNCHANGED <<agents, workflow, name_to_node, ret, panicked, starts,
                   invoked, runs>>

\* every start task has returned: execute_workflow returns, and the
\* run-scoped state is dropped
ExecuteWorkflowReturns ==
    /\ phase = "running"
    /\ pollq = <<>>
    /\ \A f \in 1..Len(frames) : frames[f].st # "unit"
    /\ phase' = "idle"
    /\ wret' = Some(WorkflowReturn(Run))
    /\ results' = [n \in Names |-> None]
    /\ edge_tracker' = {}
    /\ processed_nodes' = [i \in NodeIds |-> <<>>]
    /\ frames' = <<>>
    /\ UNCHANGED <<agents, workflow, name_to_node, ret, panicked, starts, pollq,
                   invoked, runs>>

NextRun ==
    \/ \E sl \in StartListsFor(workflow) : ExecuteWorkflow(sl)
    \/ \E o \in ImmediateOutcomes \cup {"pending"} : Poll(o)
    \/ \E f \in 1..Len(frames), o \in Outcomes : UnitCompletes(f, o)
    \/ ExecuteWorkflowReturns

SpecRun == InitRun /\ [][NextRun]_vars

(***************************************************************************)
(* Graph-theoretic notions the properties are stated with, defined on the  *)
(* edge list alone (not through has_cycle)                                 *)
(***************************************************************************)
Succs(g, S) == {g.edges[k].dst : k \in {j \in 1..Len(g.edges) : g.edges[j].src \in S}}

RECURSIVE ReachSet(_, _, _)
ReachSet(g, S, n) == IF n = 0 THEN S ELSE ReachSet(g, S \cup Succs(g, S), n - 1)

\* the nodes reachable from a along one or more edges
ReachFrom(g, a) == ReachSet(g, Succs(g, {a}), Len(g.slots))

Acyclic(g) == \A i \in 0..(Len(g.slots) - 1) : i \notin ReachFrom(g, i)

\* adding from -> to to g would close a directed cycle
ClosesCycle(g, from, to) == from = to \/ from \in ReachFrom(g, to)

Registered(n) == IsSome(agents[n]) /\ IsSome(name_to_node[n])

(***************************************************************************)
(* C1: a connect between two registered names whose new edge would close   *)
(* a directed cycle (from = to included) returns CycleDetected and leaves  *)
(* the nodes and the edges as they were before the call.                   *)
(***************************************************************************)
C1_CycleRejected ==
    [][\A from \in BuildNames, to \in BuildNames, flow \in BuildFlows :
          (/\ ConnectAgents(from, to, flow)
           /\ Registered(from) /\ Registered(to)
           /\ ClosesCycle(workflow, Unwrap(name_to_node[from]),
                          Unwrap(name_to_node[to])))
          => (/\ ret'.res = "CycleDetected"
              /\ UNCHANGED <<agents, workflow, name_to_node>>)]_vars

(***************************************************************************)
(* C2: after any sequence of register, connect, disconnect and remove      *)
(* calls the workflow graph has no directed cycle and no self-loop.        *)
(***************************************************************************)
C2_Acyclic == Acyclic(workflow)

(***************************************************************************)
(* Notions the properties of a run are stated with                         *)
(***************************************************************************)
\* every start task and everything it spawned has finished; the only step
\* left is execute_workflow's return
RunDone ==
    /\ phase = "running"
    /\ pollq = <<>>
    /\ \A f \in 1..Len(frames) : frames[f].st # "unit"

Idx(n) == Unwrap(name_to_node[n])

Known == {n \in Names : IsSome(name_to_node[n])}

StartSet == {starts[k] : k \in 1..Len(starts)}

Succeeded(n) == IsSome(results[n]) /\ Unwrap(results[n]).ok

\* the unit of n failed (an AgentError, not a timeout) and that is recorded
Failed(n) == IsSome(results[n]) /\ Unwrap(results[n]).err = "AgentError"

\* some execute_node call of n ended with the given kind of error
EndedWith(n, kind) ==
    \E f \in 1..Len(frames) :
        /\ name_of(workflow, frames[f].node) = n
        /\ frames[f].st = "ran"
        /\ Unwrap(frames[f].ret).err = kind

LastResult(n) == Unwrap(node_weight(workflow, Idx(n))).last_result

InEdges(g, j) == {k \in 1..Len(g.edges) : g.edges[k].dst = j}

Preds(g, j) == {g.edges[k].src : k \in InEdges(g, j)}

\* no two edges join the same ordered pair of nodes
SimpleGraph(g) ==
    \A j, k \in 1..Len(g.edges) :
        (g.edges[j].src = g.edges[k].src /\ g.edges[j].dst = g.edges[k].dst) => j = k

\* a run whose start list names each node once and no node that another
\* start node leads to, on a graph without parallel edges
PlainRun ==
    /\ phase = "running"
    /\ SimpleGraph(workflow)
    /\ \A i, j \in 1..Len(starts) : starts[i] = starts[j] => i = j
    /\ \A n \in StartSet, m \in StartSet : Idx(m) \notin ReachFrom(workflow, Idx(n))

\* the nodes execution can reach from the start set without passing node x
RECURSIVE ReachAvoiding(_, _, _, _)
ReachAvoiding(g, S, x, n) ==
    IF n = 0 THEN S
    ELSE ReachAvoiding(g, S \cup (Succs(g, S \ {x}) \ {x}), x, n - 1)

\* m can be reached from the start set, and only through x
OnlyThrough(m, x) ==
    LET S == {Idx(n) : n \in StartSet}
    IN /\ m # x
       /\ m \in ReachSet(workflow, S, Len(workflow.slots))
       /\ m \notin ReachAvoiding(workflow, S \ {x}, x, Len(workflow.slots))

(***************************************************************************)
(* C3: when every start name is known, execute_workflow returns the        *)
(* results map whichever units fail, a start node's unit included.         *)
(* Stated of the runs in which no unit timed out.                          *)
(***************************************************************************)
C3_FailuresContained ==
    (RunDone /\ \A n \in Known : ~EndedWith(n, "Timeout"))
        => WorkflowReturn(Run).ok

(***************************************************************************)
(* C4: a unit that exceeds the timeout leaves a Timeout error for its node *)
(* in the results map and in the node's last_result, so that at the end of *)
(* the run the map has an entry for every node whose unit was invoked.     *)
(***************************************************************************)
C4_TimeoutRecorded ==
    phase = "running" =>
        /\ \A n \in Known :
               EndedWith(n, "Timeout") =>
                   /\ IsSome(results[n]) /\ ~Unwrap(results[n]).ok
                   /\ IsSome(LastResult(n)) /\ ~Unwrap(LastResult(n)).ok
        /\ RunDone => \A n \in Known : invoked[n] # <<>> => IsSome(results[n])

(***************************************************************************)
(* C5: in the diamond a -> b -> d, a -> c -> d with default edges, run     *)
(* from a, the unit of d is never invoked twice and never before both b    *)
(* and c have recorded an outcome, whatever the order in which the units   *)
(* of b and c end; and when a, b and c have succeeded it is invoked        *)
(* exactly once by the end of the run.                                     *)
(***************************************************************************)
DiamondStore == Build(StoreNew, Diamond)

DiamondRun ==
    /\ phase = "running"
    /\ workflow.edges = DiamondStore.workflow.edges
    /\ name_to_node = DiamondStore.name_to_node
    /\ starts = <<"a">>

C5_DiamondEndOnce ==
    DiamondRun =>
        /\ Len(invoked["d"]) <= 1
        /\ invoked["d"] # <<>> => IsSome(results["b"]) /\ IsSome(results["c"])
        /\ (RunDone /\ Succeeded("a") /\ Succeeded("b") /\ Succeeded("c"))
               => Len(invoked["d"]) = 1

\* d has been invoked once, by the branch of b, which ended after that of c
C5_Witness ==
    /\ DiamondRun /\ RunDone
    /\ Len(invoked["d"]) = 1
    /\ \E f \in 1..Len(frames) :
           /\ frames[f].node = Idx("d") /\ frames[f].st = "ran"
           /\ frames[frames[f].parent].node = Idx("b")

(***************************************************************************)
(* C6: in a plain run, a node with two or more predecessors, all over      *)
(* default edges, that is dispatched through its incoming edges is run     *)
(* with one "[From <source>] <output of source>" fragment per predecessor, *)
(* in the order of the source nodes' indices, whatever the order in which  *)
(* the predecessors ended; every predecessor has succeeded by then.        *)
(***************************************************************************)
ExpectedJoinInput(j) ==
    LET ps == SortedSeq(Preds(workflow, j))
    IN [tag |-> "aggregated",
        parts |-> [k \in 1..Len(ps) |->
            [from |-> name_of(workflow, ps[k]),
             input |-> [transformed |-> FALSE,
                        out |-> Unwrap(results[name_of(workflow, ps[k])]).out]]]]

DefaultJoin(j) ==
    /\ Cardinality(Preds(workflow, j)) >= 2
    /\ \A k \in InEdges(workflow, j) : workflow.edges[k].flow = FlowDefault

Forwarded(i) ==
    \E x \in DOMAIN processed_nodes :
        \E k \in 1..Len(processed_nodes[x]) : processed_nodes[x][k][1] = i

BranchCut(i) ==
    \A m \in LiveSet(workflow) :
        OnlyThrough(m, i) =>
            /\ ~IsSome(results[name_of(workflow, m)])
            /\ invoked[name_of(workflow, m)] = <<>>

\* no execute_node call of n has returned a success
NeverSucceeded(n) ==
    \A f \in 1..Len(frames) :
        (name_of(workflow, frames[f].node) = n /\ frames[f].st = "ran")
            => ~Unwrap(frames[f].ret).ok

\* the non-start nodes whose unit has failed, and has not succeeded in
\* another invocation of the same run
FailedInner ==
    {n \in Known \ StartSet : EndedWith(n, "AgentError") /\ NeverSucceeded(n)}

C7_FailedNodeEdgesUntouched ==
    phase = "running" =>
        \A n \in FailedInner :
            /\ Failed(n)
            /\ \A x \in DOMAIN processed_nodes : <<Idx(n), x>> \notin edge_tracker
            /\ ~Forwarded(Idx(n))
            /\ BranchCut(Idx(n))

(***************************************************************************)
(* C7, amended: when the unit of a non-start node fails, its error is      *)
(* recorded under its name, none of its outgoing edges forwards an input,  *)
(* and every node the start set reaches only through it is absent from     *)
(* the results and never invoked.  An outgoing edge of the failed node can *)
(* be marked settled, as skipped: it is then a conditional edge into a     *)
(* node that has another predecessor, whose branch made the join check.    *)
(***************************************************************************)
SettledAsSkipped(i, x) ==
    /\ \E k \in InEdges(workflow, x) :
           /\ workflow.edges[k].src = i
           /\ workflow.edges[k].flow.condition
    /\ Cardinality(Preds(workflow, x)) >= 2

C7_FailedBranchStops ==
    phase = "running" =>
        \A n \in FailedInner :
            /\ Failed(n)
            /\ ~Forwarded(Idx(n))
            /\ BranchCut(Idx(n))
            /\ \A x \in DOMAIN processed_nodes :
                   <<Idx(n), x>> \in edge_tracker => SettledAsSkipped(Idx(n), x)

\* the run a -> b -> c from a is over: b failed, c was never reached
C7_Witness ==
    /\ RunDone
    /\ "b" \in FailedInner
    /\ Succeeded("a")
    /\ "c" \in Known
    /\ OnlyThrough(Idx("c"), Idx("b"))
    /\ ~IsSome(results["c"])

(***************************************************************************)
(* C8: a failed predecessor never blocks a join: when the run is over, a   *)
(* node j with two predecessors a and b, a succeeded with its edge to j    *)
(* fired and b failed, has been dispatched, with a's forwarded input only, *)
(* whatever the order in which a and b ended and whether or not the edges  *)
(* carry conditions.                                                       *)
(***************************************************************************)
\* every edge from i to j passes its condition on the recorded output of i
Fires(i, j) ==
    \A k \in InEdges(workflow, j) :
        workflow.edges[k].src = i =>
            Cond(workflow.edges[k].flow, Unwrap(results[name_of(workflow, i)]).out)

OnlyInputFrom(j, i) ==
    \A k \in 1..Len(invoked[name_of(workflow, j)]) :
        LET inp == invoked[name_of(workflow, j)][k]
        IN inp.tag = "aggregated" => \A q \in 1..Len(inp.parts) :
               inp.parts[q].from = name_of(workflow, i)

C8_FailedPredecessorNeverBlocks ==
    (PlainRun /\ RunDone) =>
        \A j \in LiveSet(workflow) : \A a, b \in Preds(workflow, j) :
            (/\ a # b /\ Preds(workflow, j) = {a, b}
             /\ Succeeded(name_of(workflow, a)) /\ Fires(a, j)
             /\ Failed(name_of(workflow, b)))
            => /\ invoked[name_of(workflow, j)] # <<>>
               /\ OnlyInputFrom(j, a)

(***************************************************************************)
(* C9: an edge whose condition is false counts as settled: when the run is *)
(* over, a node j with an unconditional edge from a, a succeeded, and a    *)
(* conditional edge from b whose condition is false on b's output, has     *)
(* been dispatched, whether a or b ended first.                            *)
(***************************************************************************)
C9_FalseConditionNeverBlocks ==
    (PlainRun /\ RunDone) =>
        \A j \in LiveSet(workflow) : \A a, b \in Preds(workflow, j) :
            (/\ a # b /\ Preds(workflow, j) = {a, b}
             /\ \A k \in InEdges(workflow, j) :
                    workflow.edges[k].flow.condition <=> workflow.edges[k].src = b
             /\ Succeeded(name_of(workflow, a))
             /\ Succeeded(name_of(workflow, b)) /\ ~Fires(b, j))
            => invoked[name_of(workflow, j)] # <<>>

(***************************************************************************)
(* C10: for an edge A -> B that is the only incoming edge of B, B not a    *)
(* start node: the unit of B is invoked only when A has succeeded with an  *)
(* output on which the edge's condition holds (an edge without condition   *)
(* always passes), B has a result only if its unit was invoked, and when   *)
(* the run is over and A has succeeded with such an output the unit of B   *)
(* has been invoked.                                                       *)
(***************************************************************************)
\* the outputs with which execute_node calls of node i have succeeded
Outputs(i) ==
    {Unwrap(frames[f].ret).out :
        f \in {h \in 1..Len(frames) :
                  /\ frames[h].node = i /\ frames[h].st = "ran"
                  /\ Unwrap(frames[h].ret).ok}}

OnlyEdge(k) ==
    /\ InEdges(workflow, workflow.edges[k].dst) = {k}
    /\ name_of(workflow, workflow.edges[k].dst) \notin StartSet

ForwardedBy(i, x, inp) ==
    \E k \in InEdges(workflow, x) :
        /\ workflow.edges[k].src = i
        /\ inp.out \in Outputs(i)
        /\ Cond(workflow.edges[k].flow, inp.out)
        /\ inp.transformed = workflow.edges[k].flow.transform

C11_TransformForwarded ==
    phase = "running" =>
        /\ \A x \in DOMAIN processed_nodes :
               \A k \in 1..Len(processed_nodes[x]) :
                   ForwardedBy(processed_nodes[x][k][1], x, processed_nodes[x][k][2])
        /\ \A n \in Known : \A k \in 1..Len(invoked[n]) :
               \A q \in 1..Len(invoked[n][k].parts) :
                   \E i \in Preds(workflow, Idx(n)) :
                       /\ name_of(workflow, i) = invoked[n][k].parts[q].from
                       /\ ForwardedBy(i, Idx(n), invoked[n][k].parts[q].input)

\* b, whose only incoming edge a -> b carries a transform, was run with the
\* transformed output of a
C11_Witness ==
    /\ phase = "running"
    /\ "a" \in Known /\ "b" \in Known
    /\ \A k \in InEdges(workflow, Idx("b")) :
           workflow.edges[k].src = Idx("a") /\ workflow.edges[k].flow.transform
    /\ Succeeded("a")
    /\ Len(invoked["b"]) = 1
    /\ Len(invoked["b"][1].parts) = 1
    /\ invoked["b"][1].parts[1].input =
           [transformed |-> TRUE, out |-> Unwrap(results["a"]).out]

(***************************************************************************)
(* C12: in a graph whose edges are all default, when every unit that is    *)
(* run succeeds, every node that can be reached from the start set along   *)
(* edges has been executed when the run is over and is in the map that     *)
(* execute_workflow returns, for every start set.                          *)
(***************************************************************************)
AllDefault(g) == \A k \in 1..Len(g.edges) : g.edges[k].flow = FlowDefault

\* every execute_node call made so far has returned a success
AllSucceed == \A f \in 1..Len(frames) : frames[f].st # "unit" /\ Unwrap(frames[f].ret).ok

\* the start nodes and everything one or more edges lead to from them
Reachable == ReachSet(workflow, {Idx(n) : n \in StartSet}, Len(workflow.slots))

C12_ReachableExecuted ==
    (RunDone /\ AllDefault(workflow) /\ AllSucceed) =>
        /\ WorkflowReturn(Run).ok
        /\ \A m \in Reachable :
               /\ invoked[name_of(workflow, m)] # <<>>
               /\ IsSome(WorkflowReturn(Run).map[name_of(workflow, m)])

(***************************************************************************)
(* C13: within one run a node's entry in the results map is write-once:    *)
(* no step of the run replaces a recorded outcome by another one, start    *)
(* lists that name a node twice or name a node downstream of another start *)
(* node included.                                                          *)
(***************************************************************************)
C13_ResultsWriteOnce ==
    [][(phase = "running" /\ phase' = "running") =>
          \A n \in Names : IsSome(results[n]) => results'[n] = results[n]]_vars

(***************************************************************************)
(* C14: a dispatch of a node that starts when the results map already      *)
(* holds an entry for it returns exactly that outcome, does not invoke the *)
(* unit and creates no future for the node's outgoing edges, whatever its  *)
(* input; a dispatch that starts when the map holds no entry for the node  *)
(* (the first one of a run, or the first after the map was cleared for a   *)
(* new run) invokes the unit.                                              *)
(***************************************************************************)
\* this step makes a new execute_node call (the last frame of frames')
Dispatches == phase = "running" /\ Len(frames') = Len(frames) + 1

C14_MemoizedDispatch ==
    [][Dispatches =>
          LET f == frames'[Len(frames')]
              n == name_of(workflow, f.node)
          IN /\ IsSome(results[n]) =>
                    /\ f.st = "cached" /\ f.ret = results[n]
                    /\ invoked' = invoked
                    /\ results' = results
                    /\ pollq' = Tail(pollq)
             /\ (~IsSome(results[n]) /\ IsSome(agents[n])) =>
                    /\ Len(invoked'[n]) = Len(invoked[n]) + 1
                    /\ f.st # "cached"]_vars

\* in the second run on the graph a was dispatched twice: its unit ran once,
\* and the second dispatch returned the outcome the first had recorded
C14_Witness ==
    /\ runs = 2 /\ phase = "running"
    /\ "a" \in Known
    /\ Len(invoked["a"]) = 1
    /\ IsSome(results["a"])
    /\ \E f \in 1..Len(frames) :
           /\ frames[f].node = Idx("a")
           /\ frames[f].st = "cached"
           /\ frames[f].ret = results["a"]

(***************************************************************************)
(* The re-run specification: execute_workflow called on a DAGWorkflow on   *)
(* which a first call, from a, has run every node with success and has     *)
(* returned.  The first run is computed with the engine's own steps, every *)
(* unit being ready with a success when first polled.                      *)
(***************************************************************************)
\* the state of a call after its reset, its new maps and its start tasks
NewRun(s, sl) ==
    [workflow |-> ResetResults(s.workflow),
     results |-> [n \in Names |-> None],
     edge_tracker |-> {},
     processed_nodes |-> [i \in NodeIds |-> <<>>],
     frames |-> <<>>,
     pollq |-> [k \in 1..Len(sl) |-> StartItem(Unwrap(s.name_to_node[sl[k]]))],
     invoked |-> [n \in Names |-> <<>>]]

\* join_all polls until nothing is left, every unit succeeding at once
RECURSIVE RunToEnd(_, _)
RunToEnd(r, ag) ==
    IF r.pollq = <<>> THEN r
    ELSE LET rp == poll(r, ag)
         IN RunToEnd(IF Invoking(r, rp) THEN unit_done(rp, Len(rp.frames), "ok")
                     ELSE rp, ag)

ChainDefault ==
    <<Reg("a"), Reg("b"), Reg("c"),
      Con("a", "b", FlowDefault), Con("b", "c", FlowDefault)>>

RerunScenarios == {ChainDefault, FanOut, Diamond}

\* the state after a first call, from a, on a graph built by one of the call
\* sequences, every unit having succeeded
InitAfterRun(scenarios) ==
    /\ \E ops \in scenarios : \E s \in {Build(StoreNew, ops)} :
           \E r \in {RunToEnd(NewRun(s, <<"a">>), s.agents)} :
               /\ agents = s.agents
               /\ name_to_node = s.name_to_node
               /\ workflow = r.workflow
               /\ invoked = r.invoked
               /\ wret = Some(WorkflowReturn(r))
    /\ ret = [op |-> "new", res |-> "Ok"]
    /\ panicked = FALSE
    /\ phase = "idle"
    /\ starts = <<"a">>
    /\ results = [n \in Names |-> None]
    /\ edge_tracker = {}
    /\ processed_nodes = [i \in NodeIds |-> <<>>]
    /\ frames = <<>>
    /\ pollq = <<>>
    /\ runs = 1

InitRerun == InitAfterRun(RerunScenarios)

SpecRerun == InitRerun /\ [][NextRun]_vars

(***************************************************************************)
(* C15: every successful start of execute_workflow empties the cached      *)
(* last_result of every node and begins with empty results, edge tracker   *)
(* and pending inputs; so during a run the last_result of a node is what   *)
(* this run has recorded for it (empty for a node this run has not         *)
(* reached, whatever an earlier run left), and an outcome is recorded only *)
(* for a node whose unit this run has invoked.                             *)
(***************************************************************************)
ExecuteWorkflowStarts == phase = "idle" /\ phase' = "running"

C15_RunStartsFresh ==
    /\ [][ExecuteWorkflowStarts =>
             /\ \A k \in 1..Len(workflow'.slots) :
                    IsSome(workflow'.slots[k]) =>
                        Unwrap(workflow'.slots[k]).last_result = None
             /\ results' = [n \in Names |-> None]
             /\ edge_tracker' = {}
             /\ processed_nodes' = [i \in NodeIds |-> <<>>]
             /\ invoked' = [n \in Names |-> <<>>]]_vars
    /\ [](phase = "running" =>
             \A n \in Known :
                 /\ LastResult(n) = results[n]
                 /\ IsSome(results[n]) => invoked[n] # <<>>)

\* the second run, from b, is over: the unit of b was invoked again, and a,
\* which the first run had reached and the second has not, has no last_result
C15_Witness ==
    /\ runs = 2 /\ RunDone
    /\ starts = <<"b">>
    /\ Succeeded("b") /\ Len(invoked["b"]) = 1
    /\ LastResult("a") = None
    /\ invoked["a"] = <<>>

(***************************************************************************)
(* C16: when a name of the start list is not a known node, execute_workflow *)
(* returns NotFound (AgentNotFound) and nothing else happens: no unit is   *)
(* invoked, no task is created, no cached last_result is reset or changed, *)
(* and the graph, the registrations and the name index are unchanged.      *)
(***************************************************************************)
\* this step is a call of execute_workflow; starts' is its start list
ExecuteWorkflowCalled == phase = "idle" /\ runs' = runs + 1

C16_UnknownStartFailsFast ==
    [][(ExecuteWorkflowCalled /\ ~StartsKnown(name_to_node, starts')) =>
          /\ wret' = Some([ok |-> FALSE, err |-> "AgentNotFound",
                           map |-> [n \in Names |-> None]])
          /\ phase' = "idle"
          /\ UNCHANGED <<agents, workflow, name_to_node, invoked, frames,
                         pollq, results, edge_tracker, processed_nodes>>]_vars

\* a call with the known a and the unknown d has returned NotFound, and the
\* outcome an earlier run cached for a is still there
C16_Witness ==
    /\ phase = "idle" /\ runs = 2
    /\ starts = <<"a", "d">>
    /\ IsSome(name_to_node["a"]) /\ ~IsSome(name_to_node["d"])
    /\ IsSome(wret) /\ Unwrap(wret).err = "AgentNotFound"
    /\ IsSome(LastResult("a"))

(***************************************************************************)
(* The direct-execution specification: execute_agent called any number of  *)
(* times on a DAGWorkflow that was built, and on one that has been run.    *)
(* ret records the call: the name, what the unit's run ended with, whether *)
(* the unit was run, and the result returned.                              *)
(***************************************************************************)
\* an execute_agent that answers from the node's cached last_result
ExecuteAgentCached(s, name, o) ==
    IF /\ IsSome(s.name_to_node[name])
       /\ IsSome(Unwrap(node_weight(s.workflow, Unwrap(s.name_to_node[name]))).last_result)
    THEN [ran |-> FALSE,
          res |-> Unwrap(Unwrap(node_weight(s.workflow,
                                 Unwrap(s.name_to_node[name]))).last_result)]
    ELSE IF IsSome(s.agents[name])
    THEN [ran |-> TRUE, res |-> AgentResult(name, o)]
    ELSE [ran |-> FALSE, res |-> Err("AgentNotFound", name)]

\* execute_agent: the unit registered under the name is run, or
\* AgentNotFound; o is what the unit's run ends with
execute_agent(s, name, o) ==
    IF IsSome(s.agents[name])
    THEN [ran |-> TRUE, res |-> AgentResult(name, o)]
    ELSE [ran |-> FALSE, res |-> Err("AgentNotFound", name)]

ExecuteAgent(name, o) ==
    /\ phase = "idle"
    /\ ~panicked
    /\ LET r == execute_agent(Store, name, o)
       IN ret' = [op |-> "execute_agent", name |-> name, outcome |-> o,
                  ran |-> r.ran, res |-> r.res]
    /\ UNCHANGED <<agents, workflow, name_to_node, panicked>>
    /\ UNCHANGED rvars

InitAgent == InitRun \/ InitRerun

NextAgent == \E name \in Names, o \in ImmediateOutcomes : ExecuteAgent(name, o)

SpecAgent == InitAgent /\ [][NextAgent]_vars

(***************************************************************************)
(* C17: execute_agent(name, input) runs the named unit every time it is    *)
(* called and returns the outcome of that run; it fails with AgentNotFound *)
(* without running anything when the name is not registered; and it leaves *)
(* every cached last_result, the run-scoped state and the graph as they    *)
(* were (what it returns does not depend on a cached last_result).         *)
(***************************************************************************)
C17_ExecuteAgentDirect ==
    [][ret'.op = "execute_agent" =>
          /\ ret'.ran = IsSome(agents[ret'.name])
          /\ ret'.ran => ret'.res = AgentResult(ret'.name, ret'.outcome)
          /\ ~ret'.ran => ret'.res.err = "AgentNotFound"
          /\ UNCHANGED <<agents, workflow, name_to_node>>
          /\ UNCHANGED rvars]_vars

\* a was run directly and failed, while the outcome a run had cached for it
\* is a success, still in place
C17_Witness ==
    /\ ret.op = "execute_agent" /\ ret.name = "a"
    /\ ret.ran /\ ~ret.res.ok
    /\ IsSome(LastResult("a")) /\ Unwrap(LastResult("a")).ok

(***************************************************************************)
(* C18: remove_agent on a known name removes the node, every edge that has *)
(* it as source or target, its name index entry and its unit registration, *)
(* and leaves every other node and every edge between other nodes as they  *)
(* were, so that the structure snapshot no longer has the name as a key or *)
(* as a connection target; on an unknown name it returns AgentNotFound and *)
(* changes nothing.                                                        *)
(***************************************************************************)
\* the edges of g that do not touch node i, in their order
EdgesAway(g, i) == SelectSeq(g.edges, LAMBDA e : e.src # i /\ e.dst # i)

\* the structure snapshot mentions the name, as a key or as a target
Mentions(st, n) ==
    \/ n \in DOMAIN st
    \/ \E m \in DOMAIN st : \E k \in 1..Len(st[m]) : st[m][k][1] = n

C18_RemoveAgentFrame ==
    [][\A name \in BuildNames :
          RemoveAgent(name) =>
              IF IsSome(name_to_node[name])
              THEN LET i == Unwrap(name_to_node[name])
                   IN /\ ret'.res = "Ok"
                      /\ workflow'.edges = EdgesAway(workflow, i)
                      /\ LiveSet(workflow') = LiveSet(workflow) \ {i}
                      /\ \A j \in LiveSet(workflow') :
                             node_weight(workflow', j) = node_weight(workflow, j)
                      /\ name_to_node' = [name_to_node EXCEPT ![name] = None]
                      /\ agents' = [agents EXCEPT ![name] = None]
                      /\ ~Mentions(get_workflow_structure(workflow'), name)
              ELSE /\ ret'.res = "AgentNotFound"
                   /\ UNCHANGED <<agents, workflow, name_to_node>>]_vars

\* the last call removed b, and the edge a -> c between two other nodes is
\* still there
C18_Witness ==
    /\ ret = [op |-> "remove_agent", res |-> "Ok"]
    /\ ~IsSome(name_to_node["b"]) /\ ~IsSome(agents["b"])
    /\ workflow.free # <<>>
    /\ Len(workflow.edges) = 1
    /\ IsSome(name_to_node["a"]) /\ IsSome(name_to_node["c"])
    /\ workflow.edges[1].src = Unwrap(name_to_node["a"])
    /\ workflow.edges[1].dst = Unwrap(name_to_node["c"])

(***************************************************************************)
(* C19: connect_agents returns AgentNotFound whenever from or to is not a  *)
(* registered name, and then adds no node and no edge; when both are       *)
(* registered and the new edge closes no cycle, it returns no error and    *)
(* adds exactly one edge from -> to, with the flow given, and no node.     *)
(* Stated of the call made in any state the store can reach.               *)
(***************************************************************************)
\* what connect_agents(from, to, flow) called in the current state does
ConnectOutcome(from, to, flow) ==
    LET r == connect_agents(Store, from, to, flow)
    IN /\ (~IsSome(agents[from]) \/ ~IsSome(agents[to])) =>
              /\ r.res = "AgentNotFound"
              /\ r.s = Store
       /\ (/\ Registered(from) /\ Registered(to)
           /\ ~ClosesCycle(workflow, Unwrap(name_to_node[from]),
                           Unwrap(name_to_node[to]))) =>
              /\ r.res \notin {"AgentNotFound", "CycleDetected"}
              /\ r.s.workflow.edges =
                     Append(workflow.edges,
                            [src |-> Unwrap(name_to_node[from]),
                             dst |-> Unwrap(name_to_node[to]),
                             flow |-> flow])
              /\ r.s.workflow.slots = workflow.slots
              /\ r.s.agents = agents
              /\ r.s.name_to_node = name_to_node

C19_ConnectChecksNames ==
    ~panicked =>
        \A from \in BuildNames, to \in BuildNames, flow \in BuildFlows :
            ConnectOutcome(from, to, flow)

\* the last call connected a to c with success, next to the edge a -> b
C19_Witness ==
    /\ ret = [op |-> "connect_agents", res |-> "Ok"]
    /\ Len(workflow.edges) = 2
    /\ Registered("a") /\ Registered("b") /\ Registered("c")
    /\ workflow.edges[1].src = Unwrap(name_to_node["a"])
    /\ workflow.edges[1].dst = Unwrap(name_to_node["b"])
    /\ workflow.edges[2].src = Unwrap(name_to_node["a"])
    /\ workflow.edges[2].dst = Unwrap(name_to_node["c"])

(***************************************************************************)
(* C20: disconnect_agents returns AgentNotFound and changes nothing when   *)
(* an endpoint is unknown or no edge from -> to exists; otherwise it       *)
(* returns Ok and removes exactly one from -> to edge, so that of k        *)
(* parallel edges k - 1 remain, and no other edge and no node is affected. *)
(* Stated of the call made in any state the store can reach.               *)
(***************************************************************************)
\* the positions of the edges from node a to node b
EdgesBetween(g, a, b) ==
    {k \in 1..Len(g.edges) : g.edges[k].src = a /\ g.edges[k].dst = b}

DisconnectOutcome(from, to) ==
    LET r == disconnect_agents(Store, from, to)
    IN IF \/ ~IsSome(name_to_node[from]) \/ ~IsSome(name_to_node[to])
          \/ EdgesBetween(workflow, Unwrap(name_to_node[from]),
                          Unwrap(name_to_node[to])) = {}
       THEN r.res = "AgentNotFound" /\ r.s = Store
       ELSE LET a == Unwrap(name_to_node[from])
                b == Unwrap(name_to_node[to])
            IN /\ r.res = "Ok"
               /\ \E k \in EdgesBetween(workflow, a, b) :
                      r.s.workflow.edges = RemoveAt(workflow.edges, k)
               /\ Cardinality(EdgesBetween(r.s.workflow, a, b)) =
                      Cardinality(EdgesBetween(workflow, a, b)) - 1
               /\ r.s.workflow.slots = workflow.slots
               /\ r.s.workflow.free = workflow.free
               /\ r.s.agents = agents
               /\ r.s.name_to_node = name_to_node

C20_DisconnectRemovesOne ==
    ~panicked =>
        \A from \in BuildNames, to \in BuildNames : DisconnectOutcome(from, to)

\* the last call disconnected with success, and of the edges from a to b one
\* is left, next to another edge
C20_Witness ==
    /\ ret = [op |-> "disconnect_agents", res |-> "Ok"]
    /\ Registered("a") /\ Registered("b")
    /\ Len(workflow.edges) = 2
    /\ Cardinality(EdgesBetween(workflow, Unwrap(name_to_node["a"]),
                                Unwrap(name_to_node["b"]))) = 1

(***************************************************************************)
(* The rebuild specification: register, connect, disconnect and remove     *)
(* calls on a DAGWorkflow that has been run once, so that its nodes hold a *)
(* cached last_result.                                                     *)
(***************************************************************************)
InitRebuild == InitAfterRun({ChainDefault})

\* the flows play no part in a registration: the edges added are default
NextRebuild ==
    \/ \E name \in BuildNames, impl \in Impls : RegisterAgent(name, impl)
    \/ \E from \in BuildNames, to \in BuildNames :
           ConnectAgents(from, to, FlowDefault)
    \/ \E from \in BuildNames, to \in BuildNames : DisconnectAgents(from, to)
    \/ \E name \in BuildNames : RemoveAgent(name)

SpecRebuild == InitRebuild /\ [][NextRebuild]_vars

(***************************************************************************)
(* C21: a name maps to at most one node at all times: the nodes that bear  *)
(* a name are the one the name index gives for it, or none.  Registering a *)
(* unit under a name that has a node replaces the unit handle only: the    *)
(* node count, the node's index, the edges and the cached last_result stay *)
(* as they were.  Registering a new name adds exactly one node, bearing    *)
(* the name, with no edge and an empty last_result.  Stated of the call    *)
(* made in any state the store can reach.                                  *)
(***************************************************************************)
\* the live nodes of g that bear the name
NodesNamed(g, n) == {i \in LiveSet(g) : name_of(g, i) = n}

\* the edges of g that have node i as source or target
EdgesAt(g, i) == {k \in 1..Len(g.edges) : g.edges[k].src = i \/ g.edges[k].dst = i}

\* what register_agent(name, impl) called in the current state does
RegisterOutcome(name, impl) ==
    LET r == register_agent(Store, name, impl)
        g == r.s.workflow
    IN /\ r.res = "Ok"
       /\ r.s.agents = [agents EXCEPT ![name] = Some(impl)]
       /\ g.edges = workflow.edges
       /\ IF NodesNamed(workflow, name) # {}
          THEN /\ g = workflow
               /\ r.s.name_to_node = name_to_node
               /\ node_count(g) = node_count(workflow)
          ELSE /\ node_count(g) = node_count(workflow) + 1
               /\ \E i \in LiveSet(g) \ LiveSet(workflow) :
                      /\ LiveSet(g) = LiveSet(workflow) \cup {i}
                      /\ node_weight(g, i) = Some(AgentNode(name))
                      /\ EdgesAt(g, i) = {}
                      /\ r.s.name_to_node = [name_to_node EXCEPT ![name] = Some(i)]
               /\ \A j \in LiveSet(workflow) :
                      node_weight(g, j) = node_weight(workflow, j)

C21_RegisterKeepsNode ==
    /\ \A n \in Names :
           NodesNamed(workflow, n) =
               IF IsSome(name_to_node[n]) THEN {Unwrap(name_to_node[n])} ELSE {}
    /\ ~panicked =>
           \A name \in BuildNames, impl \in Impls : RegisterOutcome(name, impl)

\* the last call registered a again, with another unit: a still has its node,
\* its outgoing edge and the outcome the run cached for it
C21_Witness ==
    /\ ret = [op |-> "register_agent", res |-> "Ok"]
    /\ agents["a"] = Some("u2")
    /\ IsSome(name_to_node["a"])
    /\ IsSome(LastResult("a"))
    /\ EdgesAt(workflow, Idx("a")) # {}

(***************************************************************************)
(* The diagnostics specification: the graph-store calls, and between them  *)
(* find_execution_paths and detect_potential_deadlocks, which leave the    *)
(* store as it is; ret records the call and what it returned.              *)
(***************************************************************************)
\* the start lists find_execution_paths is called with
PathStartLists == {<<n>> : n \in BuildNames} \cup {<<"a", "b">>}

FindExecutionPaths(sl) ==
    /\ ~panicked
    /\ LET r == find_execution_paths(Store, sl)
       IN ret' = [op |-> "find_execution_paths", starts |-> sl,
                  res |-> r.res, paths |-> r.paths]
    /\ UNCHANGED <<agents, workflow, name_to_node, panicked>>
    /\ UNCHANGED rvars

DetectPotentialDeadlocks ==
    /\ ~panicked
    /\ LET r == detect_potential_deadlocks(Store)
       IN /\ ret' = [op |-> "detect_potential_deadlocks", res |-> r.res,
                     sccs |-> r.sccs]
          /\ panicked' = (r.res = "Panic")
    /\ UNCHANGED <<agents, workflow, name_to_node>>
    /\ UNCHANGED rvars

\* the unit handles play no part in the diagnostics: one is registered
NextDiag ==
    \/ \E name \in BuildNames : RegisterAgent(name, "u1")
    \/ \E from \in BuildNames, to \in BuildNames, flow \in BuildFlows :
           ConnectAgents(from, to, flow)
    \/ \E from \in BuildNames, to \in BuildNames : DisconnectAgents(from, to)
    \/ \E name \in BuildNames : RemoveAgent(name)
    \/ \E sl \in PathStartLists : FindExecutionPaths(sl)
    \/ DetectPotentialDeadlocks

SpecDiag == Init /\ [][NextDiag]_vars

(***************************************************************************)
(* Notions the properties of find_execution_paths are stated with, defined *)
(* on the edge list alone (not through dfs_paths)                          *)
(***************************************************************************)
IsLeaf(g, i) == \A k \in 1..Len(g.edges) : g.edges[k].src # i

\* the directed paths of g from node i to a leaf, as sequences of edges; in
\* a graph without cycle no path is longer than the edge list
LeafWalks(g, i) ==
    {w \in UNION {[1..n -> 1..Len(g.edges)] : n \in 0..Len(g.edges)} :
        IF w = <<>> THEN IsLeaf(g, i)
        ELSE /\ g.edges[w[1]].src = i
             /\ \A j \in 1..(Len(w) - 1) : g.edges[w[j]].dst = g.edges[w[j + 1]].src
             /\ IsLeaf(g, g.edges[w[Len(w)]].dst)}

\* the names of the nodes along a path from node i
WalkNames(g, i, w) ==
    <<name_of(g, i)>> \o [j \in 1..Len(w) |-> name_of(g, g.edges[w[j]].dst)]

\* the leaves that node i is or leads to
LeavesFrom(g, i) == {j \in ReachSet(g, {i}, Len(g.slots)) : IsLeaf(g, j)}

\* the last call was find_execution_paths from one known start node
FoundPaths ==
    /\ ret.op = "find_execution_paths"
    /\ Len(ret.starts) = 1
    /\ IsSome(name_to_node[ret.starts[1]])

(***************************************************************************)
(* C22: find_execution_paths from a known start node returns exactly the   *)
(* directed paths from the start node to a node without outgoing edges,    *)
(* each as the list of the names along it: none is missing, none is        *)
(* invented, and no list is returned twice; and no unit is invoked.        *)
(***************************************************************************)
C22_PathsExact ==
    FoundPaths =>
        LET i == Idx(ret.starts[1])
            ps == ret.paths
        IN /\ ret.res = "Ok"
           /\ {ps[k] : k \in 1..Len(ps)} =
                  {WalkNames(workflow, i, w) : w \in LeafWalks(workflow, i)}
           /\ \A j, k \in 1..Len(ps) : ps[j] = ps[k] => j = k
           /\ invoked = [n \in Names |-> <<>>]

(***************************************************************************)
(* C23: on a graph without parallel edges, the number of paths that        *)
(* find_execution_paths returns for a start node is the number of distinct *)
(* leaves that can be reached from it.                                     *)
(***************************************************************************)
C23_CountIsLeaves ==
    (FoundPaths /\ SimpleGraph(workflow)) =>
        Len(ret.paths) = Cardinality(LeavesFrom(workflow, Idx(ret.starts[1])))

(***************************************************************************)
(* C23, amended: the number of paths that find_execution_paths returns for *)
(* a start node is the number of directed paths from it to a leaf; every   *)
(* leaf that can be reached ends at least one of them, so the number is at *)
(* least the number of distinct leaves reachable, and it is larger when    *)
(* several paths lead to the same leaf.                                    *)
(***************************************************************************)
C23_CountIsPaths ==
    FoundPaths =>
        LET i == Idx(ret.starts[1])
            ps == ret.paths
        IN /\ Len(ps) = Cardinality(LeafWalks(workflow, i))
           /\ \A j \in LeavesFrom(workflow, i) :
                  \E k \in 1..Len(ps) : ps[k][Len(ps[k])] = name_of(workflow, j)
           /\ Len(ps) >= Cardinality(LeavesFrom(workflow, i))

\* a -> b, a -> c, b -> c without parallel edges: two paths from a were
\* returned, both to the one leaf c
C23_Witness ==
    /\ FoundPaths /\ ret.starts = <<"a">>
    /\ SimpleGraph(workflow)
    /\ Len(workflow.edges) = 3
    /\ LeavesFrom(workflow, Idx("a")) = {Idx("c")}
    /\ Len(ret.paths) = 2
    /\ ret.paths[1] # ret.paths[2]

(***************************************************************************)
(* C24: on every graph that register, connect, disconnect and remove calls *)
(* can leave in the store, detect_potential_deadlocks returns an empty     *)
(* list: no strongly connected component has more than one node.  Stated   *)
(* of the call made in any state the store can reach.                      *)
(***************************************************************************)
C24_NoDeadlockReported == detect_potential_deadlocks(Store).sccs = {}

(***************************************************************************)
(* C25: at every point of a run, a node that has an entry in the results   *)
(* map is a start node or can be reached from a start node along edges of  *)
(* the graph; a node that is neither is never invoked, has no cached       *)
(* last_result, and is not in the map that execute_workflow returns.       *)
(***************************************************************************)
\* the known names that the start set does not reach
Unreached == {n \in Known : Idx(n) \notin Reachable}

C25_OnlyReachableRecorded ==
    /\ phase = "running" =>
           \A n \in Unreached :
               /\ ~IsSome(results[n])
               /\ invoked[n] = <<>>
               /\ LastResult(n) = None
               /\ processed_nodes[Idx(n)] = <<>>
               /\ \A x \in DOMAIN processed_nodes : <<Idx(n), x>> \notin edge_tracker
    /\ RunDone => \A n \in Unreached : ~IsSome(WorkflowReturn(Run).map[n])
    /\ (phase = "idle" /\ IsSome(wret) /\ Unwrap(wret).ok) =>
           \A n \in Unreached : ~IsSome(Unwrap(wret).map[n])

\* a run of a -> b -> c from b has returned its map: b and c are in it, and
\* a, which is not reached from b, is not
C25_Witness ==
    /\ phase = "idle" /\ runs = 1
    /\ IsSome(wret) /\ Unwrap(wret).ok
    /\ starts = <<"b">>
    /\ "a" \in Unreached
    /\ Idx("b") \in Succs(workflow, {Idx("a")})
    /\ IsSome(Unwrap(wret).map["b"]) /\ IsSome(Unwrap(wret).map["c"])
    /\ ~IsSome(Unwrap(wret).map["a"])

(***************************************************************************)
(* C26: a failure or a timeout of one node does not stop its sibling       *)
(* branches.  Stated of a plain run over default edges in which every node *)
(* of the graph is reached from the start set and no unit but that of X    *)
(* fails or times out: when the run is over, P has succeeded and has edges *)
(* to X and to Y, and the unit of X has failed or timed out, then Y and    *)
(* every node that Y leads to without passing through X has been invoked   *)
(* and has a success recorded, as it has when X succeeds.                  *)
(***************************************************************************)
\* the unit of n failed or timed out in this run
Broke(n) == EndedWith(n, "AgentError") \/ EndedWith(n, "Timeout")

\* the nodes that are Y or that Y leads to without passing through X
SiblingBranch(Y, X) == ReachAvoiding(workflow, {Y}, X, Len(workflow.slots)) \ {X}

C26_SiblingsUnaffected ==
    (/\ PlainRun /\ RunDone
     /\ AllDefault(workflow)
     /\ LiveSet(workflow) \subseteq Reachable) =>
        \A X \in LiveSet(workflow) :
            (/\ name_of(workflow, X) \notin StartSet
             /\ Broke(name_of(workflow, X))
             /\ \A n \in Known \ {name_of(workflow, X)} : ~Broke(n)) =>
                \A P \in Preds(workflow, X) : \A Y \in Succs(workflow, {P}) \ {X} :
                    Succeeded(name_of(workflow, P)) =>
                        \A m \in SiblingBranch(Y, X) :
                            /\ invoked[name_of(workflow, m)] # <<>>
                            /\ Succeeded(name_of(workflow, m))

(***************************************************************************)
(* Notions the properties of a join are stated with                        *)
(***************************************************************************)
\* a node with exactly two predecessors, over default edges
TwoWayJoin(j) == DefaultJoin(j) /\ Cardinality(Preds(workflow, j)) = 2

\* the execute_node calls of node j made by an edge future of node p
DispatchesBy(j, p) ==
    {f \in 1..Len(frames) :
        /\ frames[f].node = j
        /\ frames[f].parent # 0
        /\ frames[frames[f].parent].node = p}

\* every incoming edge of node j is in the edge tracker
AllSettled(j) == \A p \in Preds(workflow, j) : <<p, j>> \in edge_tracker

Invokes(n) == phase = "running" /\ Len(invoked'[n]) > Len(invoked[n])

C28_InvokedAfterSettled ==
    [][\A n \in Known \ StartSet :
          Invokes(n) =>
              \A p \in Preds(workflow, Idx(n)) :
                  /\ <<p, Idx(n)>> \in edge_tracker'
                  /\ IsSome(results[name_of(workflow, p)])]_vars

\* c has been invoked with the input of one predecessor only: its other
\* incoming edge carries a condition that is false on its source's output,
\* and was settled as skipped
C28_Witness ==
    /\ phase = "running"
    /\ "c" \in Known \ StartSet
    /\ Len(invoked["c"]) = 1
    /\ Cardinality(Preds(workflow, Idx("c"))) = 2
    /\ Len(processed_nodes[Idx("c")]) = 1
    /\ AllSettled(Idx("c"))
    /\ \E k \in InEdges(workflow, Idx("c")) :
           /\ workflow.edges[k].flow.condition
           /\ Succeeded(name_of(workflow, workflow.edges[k].src))
           /\ ~Fires(workflow.edges[k].src, Idx("c"))

(***************************************************************************)
(* C29: execute_workflow returns only after every dispatch it launched,    *)
(* for a start node or through fan-out, has finished.  An execute_node     *)
(* call has returned when its unit has ended, every edge future it created *)
(* has been polled, and every call those futures made has returned; the    *)
(* join_all of execute_workflow is done when every start task has          *)
(* returned.  Then no call of the run is left with its unit awaited and no *)
(* future is left unpolled; the step that returns is taken only then, it   *)
(* hands out the results map as it is, and what was returned changes only  *)
(* by the next call of execute_workflow.                                   *)
(***************************************************************************)
\* the execute_node call of frame f has returned
RECURSIVE Returned(_)
Returned(f) ==
    /\ frames[f].st # "unit"
    /\ \A k \in 1..Len(pollq) : ~(pollq[k].kind = "edge" /\ pollq[k].parent = f)
    /\ \A c \in (f + 1)..Len(frames) : frames[c].parent = f => Returned(c)

\* join_all(tasks) is done
StartTasksReturned ==
    /\ \A k \in 1..Len(pollq) : pollq[k].kind # "start"
    /\ \A f \in 1..Len(frames) : frames[f].parent = 0 => Returned(f)

\* the execute_node calls whose unit is awaited
InProgress == {f \in 1..Len(frames) : frames[f].st = "unit"}

C29_ReturnsAfterAll ==
    /\ [](phase = "running" =>
             /\ StartTasksReturned => (InProgress = {} /\ pollq = <<>>)
             /\ \A f \in 1..Len(frames) :
                    Returned(f) =>
                        \A c \in 1..Len(frames) : frames[c].parent = f => Returned(c))
    /\ [][/\ (phase = "running" /\ phase' = "idle") =>
                 /\ StartTasksReturned
                 /\ InProgress = {}
                 /\ Unwrap(wret').ok => Unwrap(wret').map = results
          /\ (phase = "idle" /\ phase' = "idle" /\ runs' = runs) => wret' = wret]_vars

\* the call on a -> b -> c from a has returned, with the outcome of c, which
\* the task of a dispatched through b, in the map
C29_Witness ==
    /\ phase = "idle" /\ runs = 1
    /\ starts = <<"a">>
    /\ {"a", "b", "c"} \subseteq Known
    /\ Preds(workflow, Idx("c")) = {Idx("b")}
    /\ Preds(workflow, Idx("b")) = {Idx("a")}
    /\ IsSome(wret) /\ Unwrap(wret).ok
    /\ IsSome(Unwrap(wret).map["c"])

(***************************************************************************)
(* C30: when a unit fails, the error that execute_agent produces, and that *)
(* execute_workflow records for the node, is a unit error (AgentError)     *)
(* that identifies by name the node whose unit failed.                     *)
(***************************************************************************)
C30_UnitErrorNamesNode ==
    phase = "running" =>
        \A n \in Known :
            Failed(n) =>
                /\ Unwrap(results[n]) = execute_agent(Store, n, "err").res
                /\ Unwrap(results[n]).err = "AgentError"
                /\ Unwrap(results[n]).msg = n

(***************************************************************************)
(* Notions the properties of the aggregated input are stated with          *)
(***************************************************************************)
\* the incoming edge at position k of the edge list has fired: its source
\* has succeeded with an output on which the edge's condition holds
Fired(k) ==
    LET e == workflow.edges[k]
        r == results[name_of(workflow, e.src)]
    IN IsSome(r) /\ Unwrap(r).ok /\ Cond(e.flow, Unwrap(r).out)

\* the "[From <source-name>] <forwarded input>" fragment of a fired edge
Fragment(k) ==
    LET e == workflow.edges[k]
    IN [from |-> name_of(workflow, e.src),
        input |-> next_input(e.flow, Unwrap(results[name_of(workflow, e.src)]).out)]

FiredInto(n) == {k \in InEdges(workflow, Idx(n)) : Fired(k)}

\* inp holds one fragment per fired incoming edge of n and nothing else,
\* the fragments in the order of their source nodes
FiredInputs(n, inp) ==
    /\ inp.tag = "aggregated"
    /\ \A k \in 1..Len(inp.parts) : \E e \in FiredInto(n) : inp.parts[k] = Fragment(e)
    /\ \A e \in FiredInto(n) :
           Cardinality({k \in 1..Len(inp.parts) : inp.parts[k] = Fragment(e)})
               = Cardinality({d \in FiredInto(n) : Fragment(d) = Fragment(e)})
    /\ \A k, l \in 1..Len(inp.parts) :
           k < l => Idx(inp.parts[k].from) <= Idx(inp.parts[l].from)

(***************************************************************************)
(* C31: the input a non-start node's unit is invoked with is the list of   *)
(* the forwarded inputs of its incoming edges that fired, one              *)
(* "[From <source-name>] <forwarded input>" fragment per fired edge, in    *)
(* the order of the source nodes, also when one edge fired; the unit of a  *)
(* start node is invoked with the initial input of the workflow.           *)
(***************************************************************************)
C31_InputIsFiredInputs ==
    phase = "running" =>
        \A n \in Known : \A k \in 1..Len(invoked[n]) :
            IF n \in StartSet THEN invoked[n][k] = InitialInput
            ELSE FiredInputs(n, invoked[n][k])

\* the same, of the runs whose start list names each node once and no node
\* downstream of another start node, on graphs without parallel edges
C31_PlainInputIsFiredInputs == PlainRun => C31_InputIsFiredInputs

(***************************************************************************)
(* C32: the outgoing edges of a node are evaluated independently of one    *)
(* another.  In the step in which a call of execute_node records a         *)
(* success, an edge future is created for each outgoing edge without a     *)
(* condition and for each outgoing edge whose condition holds on the       *)
(* output, and for no other edge, whatever the other outgoing edges are;   *)
(* each future carries the node's output.  When a future is polled its     *)
(* edge is marked settled and its forwarded input is appended to the       *)
(* pending inputs of its target.                                           *)
(***************************************************************************)
\* call f records a success in this step
RecordsSuccess(f) ==
    /\ f \in 1..Len(frames')
    /\ frames'[f].st = "ran"
    /\ Unwrap(frames'[f].ret).ok
    /\ IsSome(results'[name_of(workflow, frames'[f].node)])
    /\ (f <= Len(frames) => frames[f].st = "unit")

FuturesOf(q, f, d, fl) ==
    {k \in 1..Len(q) : q[k].kind = "edge" /\ q[k].parent = f
                       /\ q[k].dst = d /\ q[k].flow = fl}

OutEdges(g, i, d, fl) ==
    {k \in 1..Len(g.edges) :
        g.edges[k].src = i /\ g.edges[k].dst = d /\ g.edges[k].flow = fl}

PendingEntry(k) ==
    LET e == workflow.edges[k]
    IN <<e.src, next_input(e.flow, Unwrap(results[name_of(workflow, e.src)]).out)>>

\* the pending list holds one entry per fired incoming edge of node d
OnePerFiredEdge(d, pending) ==
    LET fired == {k \in InEdges(workflow, d) : Fired(k)}
    IN /\ \A j \in 1..Len(pending) : \E k \in fired : pending[j] = PendingEntry(k)
       /\ \A k \in fired :
             Cardinality({j \in 1..Len(pending) : pending[j] = PendingEntry(k)})
                = Cardinality({l \in fired : PendingEntry(l) = PendingEntry(k)})

\* the head of pollq is an edge future and this step dispatches its target
DispatchesByEdge == Dispatches /\ pollq # <<>> /\ Head(pollq).kind = "edge"

C33_PendingHoldsFiredEdges ==
    [][DispatchesByEdge =>
          OnePerFiredEdge(Head(pollq).dst, processed_nodes'[Head(pollq).dst])]_vars

\* the same, of plain runs, which are on graphs without parallel edges
C33_PlainPendingHoldsFiredEdges ==
    [][(PlainRun /\ DispatchesByEdge) =>
          OnePerFiredEdge(Head(pollq).dst, processed_nodes'[Head(pollq).dst])]_vars

(***************************************************************************)
(* C34: when execute_workflow returns the results map, the cached last     *)
(* result of every node agrees with it: it is the outcome the map holds    *)
(* for the node's name, and it is empty when the map has no entry for the  *)
(* name.  The same agreement holds between the cached results and the      *)
(* run's results map at every point of a run.                              *)
(***************************************************************************)
CacheAgrees(map) ==
    \A i \in LiveSet(workflow) :
        Unwrap(node_weight(workflow, i)).last_result = map[name_of(workflow, i)]

C34_CacheAgreesWithMap ==
    /\ (phase = "running") => CacheAgrees(results)
    /\ (phase = "idle" /\ IsSome(wret) /\ Unwrap(wret).ok)
          => CacheAgrees(Unwrap(wret).map)

\* a second call has returned a map with an entry for one node and none
\* for another
C34_Witness ==
    /\ phase = "idle"
    /\ runs = 2
    /\ IsSome(wret)
    /\ Unwrap(wret).ok
    /\ \E n \in Known, m \in Known :
          /\ IsSome(Unwrap(wret).map[n])
          /\ LastResult(n) = Unwrap(wret).map[n]
          /\ ~IsSome(Unwrap(wret).map[m])
          /\ ~IsSome(LastResult(m))

(***************************************************************************)
(* C35: the cycle check run by connect stays within bounds: after any      *)
(* sequence of calls every live node's index is smaller than the live node *)
(* count that sizes the visited and recursion-stack vectors, and no call   *)
(* ends in a panic.                                                        *)
(***************************************************************************)
C35_CycleCheckInBounds ==
    /\ \A i \in LiveSet(workflow) : i < node_count(workflow)
    /\ ret.res # "Panic"

(***************************************************************************)
(* C36: after any sequence of register, connect, disconnect and remove     *)
(* calls the three stores agree: the names with a registered unit, the     *)
(* keys of name_to_node and the names of the nodes of the graph are the    *)
(* same set, name_to_node maps each name to the index of the node that     *)
(* carries it, and no two nodes carry the same name.                       *)
(***************************************************************************)
UnitNames == {n \in Names : IsSome(agents[n])}

TableNames == {n \in Names : IsSome(name_to_node[n])}

NodeNames == {name_of(workflow, i) : i \in LiveSet(workflow)}

C36_StoresAgree ==
    /\ UnitNames = TableNames
    /\ TableNames = NodeNames
    /\ \A n \in TableNames :
          /\ IsLive(workflow, Unwrap(name_to_node[n]))
          /\ name_of(workflow, Unwrap(name_to_node[n])) = n
    /\ \A i, j \in LiveSet(workflow) :
          name_of(workflow, i) = name_of(workflow, j) => i = j

\* three names were registered, the second one was removed, which leaves its
\* slot vacant, and the two others are connected
C36_Witness ==
    /\ ~panicked
    /\ workflow.free = <<1>>
    /\ IsSome(name_to_node["c"])
    /\ Unwrap(name_to_node["c"]) = 0
    /\ IsSome(name_to_node["a"])
    /\ Unwrap(name_to_node["a"]) = 2
    /\ IsSome(agents["a"])
    /\ ~IsSome(agents["b"])
    /\ Len(workflow.edges) > 0

(***************************************************************************)
(* C37: for a graph with default edges only, a start list without repeated *)
(* names and units that all succeed, the results map is the same for every *)
(* interleaving of the branches.  A unit's output depends on its input     *)
(* only, so the map is the same when it has the same keys and every unit   *)
(* was run on the same input; the interleaving compared with is the one in *)
(* which every unit is ready when it is first polled.                      *)
(***************************************************************************)
InputsOf(inv, n) == {inv[n][k] : k \in 1..Len(inv[n])}

\* a finished run of the kind the property is about, every unit having
\* returned the same output whatever the interleaving
DeterministicCase ==
    /\ RunDone
    /\ AllDefault(workflow)
    /\ \A i, j \in 1..Len(starts) : starts[i] = starts[j] => i = j
    /\ AllSucceed
    /\ \A f \in 1..Len(frames) : ~Unwrap(frames[f].ret).out.trigger

SameAsEagerRun ==
    LET c == RunToEnd(NewRun(Store, starts), agents)
    IN \A n \in Names :
          /\ IsSome(results[n]) <=> IsSome(c.results[n])
          /\ InputsOf(invoked, n) = InputsOf(c.invoked, n)

C37_ResultsDeterministic == DeterministicCase => SameAsEagerRun

\* the same, of plain runs: no parallel edges, no start node downstream of
\* another one
C37_PlainResultsDeterministic == (PlainRun /\ DeterministicCase) => SameAsEagerRun

\* the same, of the runs on graphs without parallel edges
C37_SimpleResultsDeterministic ==
    (SimpleGraph(workflow) /\ DeterministicCase) => SameAsEagerRun

\* the same, of the runs in which no unit was invoked twice
C37_OnceResultsDeterministic ==
    ((\A n \in Names : Len(invoked[n]) <= 1) /\ DeterministicCase) => SameAsEagerRun

(***************************************************************************)
(* The execution specification with its scheduling: join_all keeps polling *)
(* the futures it holds, every unit that is awaited ends or runs into its  *)
(* timeout, and execute_workflow returns once join_all(tasks) is done.     *)
(***************************************************************************)
\* the graphs with a join, whose last call of execute_workflow is to come
LiveScenarios == {Diamond, JoinReversed, FanOut, Removed} \cup Joins \cup Triangles

InitLive ==
    /\ \E ops \in LiveScenarios : \E s \in {Build(StoreNew, ops)} :
           /\ agents = s.agents
           /\ workflow = s.workflow
           /\ name_to_node = s.name_to_node
    /\ ret = [op |-> "new", res |-> "Ok"]
    /\ panicked = FALSE
    /\ phase = "idle"
    /\ starts = <<>>
    /\ NoRun
    /\ wret = None
    /\ runs = MaxRuns - 1

\* join_all polls a future it has not polled yet: Poll is enabled exactly
\* when a future is left to poll, and weak fairness of it is written with
\* that condition
PollFair ==
    \/ []<>(~(phase = "running" /\ pollq # <<>>))
    \/ []<><<\E o \in ImmediateOutcomes \cup {"pending"} : Poll(o)>>_vars

FairRun ==
    /\ PollFair
    /\ WF_vars(\E f \in 1..Len(frames), o \in Outcomes : UnitCompletes(f, o))
    /\ WF_vars(ExecuteWorkflowReturns)

SpecRunLive == InitLive /\ [][NextRun]_vars /\ FairRun

(***************************************************************************)
(* C38: when every unit that is invoked ends or times out, every call of   *)
(* execute_workflow returns, for every start list and every interleaving:  *)
(* a run in progress leads to the call's return, also when a join is never *)
(* dispatched.                                                             *)
(***************************************************************************)
\* a future left to poll can be polled, and the poll changes the run: the
\* condition PollFair is written with is the one under which Poll is enabled
PollEnabled == (phase = "running" /\ pollq # <<>>) => poll(Run, agents) # Run

C38_RunReturns ==
    /\ [](PollEnabled)
    /\ (phase = "running") ~> (phase = "idle" /\ IsSome(wret))

\* a call from a has returned on the join a -> c, b -> c: c, which waits
\* for b, was never dispatched
C38_Witness ==
    /\ phase = "idle"
    /\ IsSome(wret)
    /\ Unwrap(wret).ok
    /\ starts = <<"a">>
    /\ {"a", "b", "c"} \subseteq Known
    /\ Preds(workflow, Idx("c")) = {Idx("a"), Idx("b")}
    /\ IsSome(LastResult("a"))
    /\ Unwrap(LastResult("a")).ok
    /\ ~IsSome(LastResult("c"))

====
